---- MODULE Spec2Model ----
(***************************************************************************)
(* A model of the EasyRead topic-mapping component (DataMapping.tsx): the  *)
(* pure analysis pipeline (analyzeDocumentTopics, extractKeyThemes,        *)
(* generateSubtopics, generateConnections) and the React orchestrator      *)
(* around it (generateTopicMapping, the useEffect that re-triggers it and  *)
(* the retry / re-analyze buttons).                                        *)
(*                                                                         *)
(* Strings are sequences of one-character strings, so that title-casing,   *)
(* substring tests and lengths are computed as the code computes them.     *)
(* A text is kept as the list of tokens text.split(' ') yields, in runs:   *)
(* [w |-> word, n |-> repetitions]; '' is the single empty token.          *)
(***************************************************************************)
EXTENDS Integers, Sequences, FiniteSets, TLC

VARIABLES
    \* ---- the pipeline, run on one drawn input (specification SpecPipeline)
    text,        \* the corpus handed to extractKeyThemes
    structure,   \* documentStructure: [hasColumns, columns]
    labels,      \* the outcomes of Math.random() in generateConnections
    themes,      \* result of extractKeyThemes
    subtopics,   \* result of generateSubtopics
    connections, \* result of generateConnections
    pstep,       \* position in the pipeline
    \* ---- the orchestrator (specification Spec)
    input,       \* the props data / summaryData of the current render
    mounted,     \* the mount effect has run
    mapping,     \* useState mapping
    loading,     \* useState loading
    error,       \* useState error
    runs,        \* calls of generateTopicMapping awaiting their timer, oldest first
    nextRun,     \* number of calls of generateTopicMapping so far
    mappingRun,  \* which call stored the current mapping (0: none)
    changes,     \* number of prop changes so far
    outcome,     \* per call: "none", "pending", "ready", "failed" or "escaped"
    \* ---- the resolution of mainTopic on one drawn input (specification SpecTopic)
    topicInput,  \* the props data / summaryData
    mainTopic,   \* the value of mainTopic after lines 204-224
    tstep,       \* "off", "input" or "done"
    \* ---- the try block run on one drawn input (specification SpecAnalysis)
    analysisInput, \* the props data / summaryData
    generated,     \* <<>> or <<generatedMapping>>
    astep,         \* "off", "input", "done" or "failed"
    \* ---- the component QuizSection (specification SpecQuiz)
    quiz,              \* useState quiz: the correct option of each question
    isGenerating,      \* useState isGenerating
    currentQuestion,   \* useState currentQuestion
    selectedAnswer,    \* useState selectedAnswer: <<>> is null, else <<index>>
    showResult,        \* useState showResult
    score,             \* useState score
    answeredQuestions, \* useState answeredQuestions
    generating,        \* the 1500 ms timer of generateQuiz is pending
    advances,          \* the pending 2500 ms callbacks of handleNextQuestion,
                       \* oldest first, each with the currentQuestion it captured
    presses,           \* activations of the button Next so far
    \* ---- the page Index and its step FileUpload (specification SpecWizard)
    currentStep,   \* useState currentStep of Index
    uploadedData,  \* useState uploadedData of Index
    rendered,      \* the component renderCurrentStep returned last
    uploadedFile,  \* useState uploadedFile of FileUpload: <<>> is null, else <<file>>
    parsedData,    \* useState parsedData of FileUpload
    fileType,      \* useState fileType of FileUpload: "null", "csv" or "pdf"
    reads,         \* the FileReader loads under way: [file, orphan], orphan when
                   \* the FileUpload that started the load is unmounted
    toast,         \* the title of the last toast
    lastCall,      \* the last callback run and what it was run on
    uploads,       \* calls of handleFile so far
    dataUploads    \* calls of onDataUpload so far

pipeVars == <<text, structure, labels, themes, subtopics, connections, pstep>>
orchVars == <<input, mounted, mapping, loading, error, runs, nextRun, mappingRun,
              changes, outcome>>
topicVars == <<topicInput, mainTopic, tstep>>
analysisVars == <<analysisInput, generated, astep>>
quizVars == <<quiz, isGenerating, currentQuestion, selectedAnswer, showResult, score,
              answeredQuestions, generating, advances, presses>>
indexVars == <<currentStep, uploadedData, rendered>>
uploadVars == <<uploadedFile, parsedData, fileType, reads, toast, lastCall, uploads,
                dataUploads>>
wizardVars == <<indexVars, uploadVars>>
otherVars == <<topicVars, analysisVars, quizVars, wizardVars>>
vars == <<pipeVars, orchVars, otherVars>>

----------------------------------------------------------------------------
(* Characters and strings                                                  *)

LowerChars == <<"a","b","c","d","e","f","g","h","i","j","k","l","m",
                "n","o","p","q","r","s","t","u","v","w","x","y","z">>
UpperChars == <<"A","B","C","D","E","F","G","H","I","J","K","L","M",
                "N","O","P","Q","R","S","T","U","V","W","X","Y","Z">>

Letters == 1..Len(LowerChars)
LowerSet == {LowerChars[i] : i \in Letters}
UpperSet == {UpperChars[i] : i \in Letters}
UpperOf == [c \in LowerSet |-> UpperChars[CHOOSE i \in Letters : LowerChars[i] = c]]
LowerOf == [c \in UpperSet |-> LowerChars[CHOOSE i \in Letters : UpperChars[i] = c]]

\* String.prototype.toUpperCase / toLowerCase on one character
toUpperCaseChar(c) == IF c \in LowerSet THEN UpperOf[c] ELSE c
toLowerCaseChar(c) == IF c \in UpperSet THEN LowerOf[c] ELSE c

toLowerCase(s) == [i \in 1..Len(s) |-> toLowerCaseChar(s[i])]

\* the regex class \w
WordChars == LowerSet \cup UpperSet \cup {"0","1","2","3","4","5","6","7","8","9","_"}
IsWordChar(c) == c \in WordChars

\* s.replace(/[_-]/g, ' ')
ReplaceSeparators(s) ==
    [i \in 1..Len(s) |-> IF s[i] \in {"_", "-"} THEN " " ELSE s[i]]

\* s.replace(/\b\w/g, l => l.toUpperCase()): a word character preceded by the
\* start of the string or by a non-word character is upper-cased
CapitalizeWords(s) ==
    [i \in 1..Len(s) |->
        IF IsWordChar(s[i]) /\ (i = 1 \/ ~IsWordChar(s[i-1]))
        THEN toUpperCaseChar(s[i])
        ELSE s[i]]

\* col.replace(/[_-]/g, ' ').replace(/\b\w/g, l => l.toUpperCase())
TitleCase(s) == CapitalizeWords(ReplaceSeparators(s))

\* String.prototype.includes
Includes(s, sub) ==
    \E i \in 0..(Len(s) - Len(sub)) :
        \A k \in 1..Len(sub) : s[i + k] = sub[k]

----------------------------------------------------------------------------
(* Texts: the tokens of text.split(' '), in runs                           *)

Run(word, count) == [w |-> word, n |-> count]

\* the string '': split(' ') yields one empty token
EmptyText == <<Run(<<>>, 1)>>

RECURSIVE TokenCount(_)
\* text.split(' ').length
TokenCount(t) ==
    IF t = <<>> THEN 0 ELSE Head(t).n + TokenCount(Tail(t))

RECURSIVE CharCount(_)
CharCount(t) ==
    IF t = <<>> THEN 0 ELSE Head(t).n * Len(Head(t).w) + CharCount(Tail(t))

\* text.length: the characters of the tokens and the single spaces between them
TextLength(t) == CharCount(t) + TokenCount(t) - 1

\* a + ' ' + b
JoinSpace(a, b) == a \o b

RECURSIVE TrimStart(_)
TrimStart(t) ==
    IF t = <<>> THEN <<>>
    ELSE IF Head(t).w = <<>> THEN TrimStart(Tail(t))
    ELSE t

RECURSIVE TrimEnd(_)
TrimEnd(t) ==
    IF t = <<>> THEN <<>>
    ELSE IF t[Len(t)].w = <<>> THEN TrimEnd(SubSeq(t, 1, Len(t) - 1))
    ELSE t

\* String.prototype.trim: leading and trailing empty tokens are whitespace only
Trim(t) ==
    IF TrimEnd(TrimStart(t)) = <<>> THEN EmptyText ELSE TrimEnd(TrimStart(t))

RECURSIVE SplitWords(_, _, _)
\* the maximal runs of \w characters of s from position i on, in order, cur being
\* the run read so far: the non-empty pieces of s.split(/\W+/)
SplitWords(s, i, cur) ==
    IF i > Len(s) THEN (IF cur = <<>> THEN <<>> ELSE <<cur>>)
    ELSE IF IsWordChar(s[i]) THEN SplitWords(s, i + 1, Append(cur, s[i]))
    ELSE (IF cur = <<>> THEN <<>> ELSE <<cur>>) \o SplitWords(s, i + 1, <<>>)

\* the lower-cased whole words of every token of a text, run by run
LowerWords(t) ==
    [k \in 1..Len(t) |-> [ws |-> SplitWords(toLowerCase(t[k].w), 1, <<>>), n |-> t[k].n]]

\* the matches of /\b(k1|k2|...)\b/gi in one token: the whole words of the token
\* that are one of the keywords, whatever their case
TokenMatches(ws, keywords) ==
    Cardinality({k \in 1..Len(ws) : ws[k] \in keywords})

RECURSIVE MatchCount(_, _)
\* (text.match(pattern) || []).length, lw being LowerWords(text)
MatchCount(lw, keywords) ==
    IF lw = <<>> THEN 0
    ELSE Head(lw).n * TokenMatches(Head(lw).ws, keywords)
         + MatchCount(Tail(lw), keywords)

----------------------------------------------------------------------------
(* extractKeyThemes                                                        *)

\* the pattern of an entry is the set of its alternatives
topicPatterns ==
    <<
      [pattern |-> {<<"d","a","t","a">>,
                    <<"a","n","a","l","y","t","i","c","s">>,
                    <<"a","n","a","l","y","s","i","s">>,
                    <<"s","t","a","t","i","s","t","i","c","s">>,
                    <<"m","e","t","r","i","c","s">>},
       theme |-> <<"D","a","t","a"," ","A","n","a","l","y","s","i","s">>,
       description |-> "Statistical analysis and data interpretation"],
      [pattern |-> {<<"r","e","s","e","a","r","c","h">>,
                    <<"s","t","u","d","y">>,
                    <<"i","n","v","e","s","t","i","g","a","t","i","o","n">>,
                    <<"f","i","n","d","i","n","g","s">>,
                    <<"r","e","s","u","l","t","s">>},
       theme |-> <<"R","e","s","e","a","r","c","h">>,
       description |-> "Research methodology and findings"],
      [pattern |-> {<<"b","u","s","i","n","e","s","s">>,
                    <<"m","a","n","a","g","e","m","e","n","t">>,
                    <<"s","t","r","a","t","e","g","y">>,
                    <<"o","p","e","r","a","t","i","o","n","s">>,
                    <<"p","e","r","f","o","r","m","a","n","c","e">>},
       theme |-> <<"B","u","s","i","n","e","s","s"," ","S","t","r","a","t","e","g","y">>,
       description |-> "Business operations and strategic planning"],
      [pattern |-> {<<"t","e","c","h","n","o","l","o","g","y">>,
                    <<"d","i","g","i","t","a","l">>,
                    <<"s","o","f","t","w","a","r","e">>,
                    <<"s","y","s","t","e","m">>,
                    <<"p","l","a","t","f","o","r","m">>},
       theme |-> <<"T","e","c","h","n","o","l","o","g","y">>,
       description |-> "Technological systems and digital solutions"],
      [pattern |-> {<<"e","d","u","c","a","t","i","o","n">>,
                    <<"l","e","a","r","n","i","n","g">>,
                    <<"t","e","a","c","h","i","n","g">>,
                    <<"a","c","a","d","e","m","i","c">>,
                    <<"c","u","r","r","i","c","u","l","u","m">>},
       theme |-> <<"E","d","u","c","a","t","i","o","n">>,
       description |-> "Educational content and learning methodologies"],
      [pattern |-> {<<"h","e","a","l","t","h">>,
                    <<"m","e","d","i","c","a","l">>,
                    <<"h","e","a","l","t","h","c","a","r","e">>,
                    <<"t","r","e","a","t","m","e","n","t">>,
                    <<"p","a","t","i","e","n","t">>},
       theme |-> <<"H","e","a","l","t","h","c","a","r","e">>,
       description |-> "Medical and healthcare-related topics"],
      [pattern |-> {<<"f","i","n","a","n","c","e">>,
                    <<"f","i","n","a","n","c","i","a","l">>,
                    <<"e","c","o","n","o","m","i","c">>,
                    <<"b","u","d","g","e","t">>,
                    <<"c","o","s","t">>},
       theme |-> <<"F","i","n","a","n","c","e">>,
       description |-> "Financial analysis and economic factors"],
      [pattern |-> {<<"m","a","r","k","e","t","i","n","g">>,
                    <<"c","u","s","t","o","m","e","r">>,
                    <<"s","a","l","e","s">>,
                    <<"b","r","a","n","d">>,
                    <<"c","a","m","p","a","i","g","n">>},
       theme |-> <<"M","a","r","k","e","t","i","n","g">>,
       description |-> "Marketing strategies and customer engagement"],
      [pattern |-> {<<"p","r","o","j","e","c","t">>,
                    <<"p","r","o","c","e","s","s">>,
                    <<"w","o","r","k","f","l","o","w">>,
                    <<"i","m","p","l","e","m","e","n","t","a","t","i","o","n">>,
                    <<"e","x","e","c","u","t","i","o","n">>},
       theme |-> <<"P","r","o","j","e","c","t"," ","M","a","n","a","g","e","m","e","n","t">>,
       description |-> "Project planning and process optimization"],
      [pattern |-> {<<"q","u","a","l","i","t","y">>,
                    <<"i","m","p","r","o","v","e","m","e","n","t">>,
                    <<"o","p","t","i","m","i","z","a","t","i","o","n">>,
                    <<"e","f","f","i","c","i","e","n","c","y">>,
                    <<"p","e","r","f","o","r","m","a","n","c","e">>},
       theme |-> <<"Q","u","a","l","i","t","y"," ","M","a","n","a","g","e","m","e","n","t">>,
       description |-> "Quality assurance and process improvement"]
    >>

Min(a, b) == IF a <= b THEN a ELSE b
Max(a, b) == IF a >= b THEN a ELSE b
Abs(a) == IF a >= 0 THEN a ELSE -a

\* a relevance without the cap at 10
RelevanceUncapped(matches, words) == ((matches * 1000) \div words) + 3

\* Math.min(10, Math.floor((matches / text.split(' ').length) * 1000) + 3)
Relevance(matches, words) == Min(10, ((matches * 1000) \div words) + 3)

Slice(s, from, to) == SubSeq(s, from + 1, Min(to, Len(s)))

SentenceDelimiters == {".", "!", "?"}

RECURSIVE SplitDelims(_, _, _, _)
\* token.split(/[.!?]+/), from position i on: cur is the piece read so far and
\* inDelim tells that the previous character was a delimiter
SplitDelims(s, i, cur, inDelim) ==
    IF i > Len(s) THEN <<cur>>
    ELSE IF s[i] \in SentenceDelimiters
         THEN (IF inDelim THEN <<>> ELSE <<cur>>) \o SplitDelims(s, i + 1, <<>>, TRUE)
         ELSE SplitDelims(s, i + 1, Append(cur, s[i]), FALSE)

\* n copies of a token that holds delimiters, split into pieces, added to the
\* sentences so far: acc.done are the sentences closed, acc.cur the open one.
\* The first piece closes the open sentence, a piece in the middle is a
\* sentence, and the last piece opens the sentence the next token continues
SplitToken(acc, pieces, n) ==
    LET m == Len(pieces)
        middle == [k \in 1..(m - 2) |-> <<Run(pieces[k + 1], 1)>>]
        block == <<<<Run(pieces[m], 1), Run(pieces[1], 1)>>>> \o middle
    IN  [done |-> acc.done \o <<Append(acc.cur, Run(pieces[1], 1))>> \o middle
                  \o [i \in 1..((n - 1) * (m - 1)) |-> block[((i - 1) % (m - 1)) + 1]],
         cur |-> <<Run(pieces[m], 1)>>]

RECURSIVE SplitRuns(_, _)
SplitRuns(acc, t) ==
    IF t = <<>> THEN acc
    ELSE LET pieces == SplitDelims(Head(t).w, 1, <<>>, FALSE)
         IN  SplitRuns(IF Len(pieces) = 1
                       THEN [acc EXCEPT !.cur = Append(acc.cur, Head(t))]
                       ELSE SplitToken(acc, pieces, Head(t).n),
                       Tail(t))

\* text.split(/[.!?]+/): each sentence is a text again
Sentences(t) ==
    LET acc == SplitRuns([done |-> <<>>, cur |-> <<>>], t)
    IN  Append(acc.done, acc.cur)

RECURSIVE ScanWords(_, _, _, _)
\* the lower-cased whole words of a token with the offset of their first
\* character in the token
ScanWords(s, i, cur, start) ==
    IF i > Len(s)
    THEN (IF cur = <<>> THEN <<>> ELSE <<[w |-> cur, at |-> start]>>)
    ELSE IF IsWordChar(s[i])
         THEN ScanWords(s, i + 1, Append(cur, toLowerCaseChar(s[i])),
                        IF cur = <<>> THEN i - 1 ELSE start)
         ELSE (IF cur = <<>> THEN <<>> ELSE <<[w |-> cur, at |-> start]>>)
              \o ScanWords(s, i + 1, <<>>, 0)

RECURSIVE Scanned(_)
\* a sentence with, run by run, the words of its token and the token's length
Scanned(sentence) ==
    IF sentence = <<>> THEN <<>>
    ELSE <<[ws |-> ScanWords(Head(sentence).w, 1, <<>>, 0),
            len |-> Len(Head(sentence).w),
            n |-> Head(sentence).n]>>
         \o Scanned(Tail(sentence))

RECURSIVE FirstMatchEnd(_, _, _, _)
\* the end of the first match of the pattern at offset from or later, or -1
FirstMatchEnd(sr, off, from, keywords) ==
    IF sr = <<>> THEN -1
    ELSE LET r == Head(sr)
             hit == \E x \in 1..Len(r.ws) : r.ws[x].w \in keywords
             starts == IF hit
                       THEN {off + k * (r.len + 1) + r.ws[x].at :
                                x \in {y \in 1..Len(r.ws) : r.ws[y].w \in keywords},
                                k \in 0..(r.n - 1)}
                       ELSE {}
             later == {p \in starts : p >= from}
         IN  IF later # {}
             THEN LET first == CHOOSE p \in later : \A q \in later : p <= q
                      word == CHOOSE x \in 1..Len(r.ws) :
                                  /\ r.ws[x].w \in keywords
                                  /\ \E k \in 0..(r.n - 1) :
                                        off + k * (r.len + 1) + r.ws[x].at = first
                  IN  first + Len(r.ws[word].w)
             ELSE FirstMatchEnd(Tail(sr), off + r.n * (r.len + 1), from, keywords)

RECURSIVE LongSentences(_)
\* sentences.filter(s => s.trim().length > 20), each sentence with its words
LongSentences(ss) ==
    IF ss = <<>> THEN <<>>
    ELSE (IF TextLength(Trim(Head(ss))) > 20
          THEN <<[sentence |-> Head(ss), words |-> Scanned(Head(ss))]>>
          ELSE <<>>)
         \o LongSentences(Tail(ss))

RECURSIVE TestFilter(_, _, _)
\* sentences.filter(sentence => pattern.test(sentence)): the pattern has the
\* flag g, so test() searches from pattern.lastIndex and then sets lastIndex to
\* the end of the match, or to 0 when there is none
TestFilter(ss, lastIndex, keywords) ==
    IF ss = <<>> THEN <<>>
    ELSE LET end == FirstMatchEnd(Head(ss).words, 0, lastIndex, keywords)
         IN  IF end >= 0
             THEN <<Head(ss).sentence>> \o TestFilter(Tail(ss), end, keywords)
             ELSE TestFilter(Tail(ss), 0, keywords)

RECURSIVE Prefix(_, _, _)
\* the first r characters of a text, first telling that no token precedes: the
\* last token of the result may be a token cut short
Prefix(t, r, first) ==
    IF t = <<>> \/ r <= 0 THEN <<>>
    ELSE LET len == Len(Head(t).w)
             n == Head(t).n
             fit == Min(n, IF first THEN (r + 1) \div (len + 1) ELSE r \div (len + 1))
             cost == IF first /\ fit > 0 THEN fit * (len + 1) - 1 ELSE fit * (len + 1)
             sep == IF first /\ fit = 0 THEN 0 ELSE 1
         IN  (IF fit > 0 THEN <<Run(Head(t).w, fit)>> ELSE <<>>)
             \o (IF fit = n
                 THEN Prefix(Tail(t), r - cost, FALSE)
                 ELSE IF r - cost >= sep /\ (r - cost > 0 \/ sep = 0)
                      THEN <<Run(SubSeq(Head(t).w, 1, r - cost - sep), 1)>>
                      ELSE <<>>)

\* s.substring(0, r)
Substring(t, r) ==
    IF r >= TextLength(t) THEN t
    ELSE IF Prefix(t, r, TRUE) = <<>> THEN EmptyText
    ELSE Prefix(t, r, TRUE)

KeyPoint(template, txt, dots) == [tpl |-> template, text |-> txt, ellipsis |-> dots]

\* sentence.trim().substring(0, 100) + (sentence.length > 100 ? '...' : '')
SentenceKeyPoint(sentence) ==
    KeyPoint("${sentence}", Substring(Trim(sentence), 100), TextLength(sentence) > 100)

\* the keyPoints of a theme found by its pattern
PatternKeyPoints(long, entry) ==
    LET relevantSentences == Slice(TestFilter(long, 0, entry.pattern), 0, 3)
    IN  IF relevantSentences # <<>>
        THEN [k \in 1..Len(relevantSentences) |-> SentenceKeyPoint(relevantSentences[k])]
        ELSE <<KeyPoint("Key aspects of ${theme} identified in the document",
                        <<Run(toLowerCase(entry.theme), 1)>>, FALSE)>>

RECURSIVE PatternThemes(_, _, _, _)
\* topicPatterns.forEach(...): one theme per entry with a match, in catalog
\* order; lw is LowerWords(text), words is text.split(' ').length and long
\* are the sentences of the text longer than 20 characters
PatternThemes(lw, words, long, k) ==
    IF k > Len(topicPatterns) THEN <<>>
    ELSE LET entry == topicPatterns[k]
             matches == MatchCount(lw, entry.pattern)
         IN  (IF matches > 0
              THEN <<[name |-> entry.theme,
                      description |-> [tpl |-> entry.description, arg |-> <<>>],
                      relevance |-> Relevance(matches, words),
                      keyPoints |-> PatternKeyPoints(long, entry)]>>
              ELSE <<>>)
             \o PatternThemes(lw, words, long, k + 1)

\* structure.columns.slice(0, 6).forEach((col, index) => themes.push(...))
StructuralThemes(columns) ==
    [i \in 1..Min(6, Len(columns)) |->
        [name |-> TitleCase(columns[i]),
         description |-> [tpl |-> "Data dimension: ${col}", arg |-> columns[i]],
         relevance |-> 8 - (i - 1),
         keyPoints |-> <<KeyPoint("Contains structured data for ${col}",
                                  <<Run(columns[i], 1)>>, FALSE),
                         KeyPoint("Available for analysis and visualization",
                                  EmptyText, FALSE)>>]]

RECURSIVE InsertByRelevanceUnstable(_, _)
\* a sort that is not stable: x goes before the elements of equal relevance
InsertByRelevanceUnstable(x, s) ==
    IF s = <<>> THEN <<x>>
    ELSE IF Head(s).relevance > x.relevance
         THEN <<Head(s)>> \o InsertByRelevanceUnstable(x, Tail(s))
         ELSE <<x>> \o s

RECURSIVE InsertByRelevance(_, _)
\* x goes after every element whose relevance is not smaller (a stable sort)
InsertByRelevance(x, s) ==
    IF s = <<>> THEN <<x>>
    ELSE IF Head(s).relevance >= x.relevance
         THEN <<Head(s)>> \o InsertByRelevance(x, Tail(s))
         ELSE <<x>> \o s

RECURSIVE SortByRelevance(_)
\* themes.sort((a, b) => b.relevance - a.relevance): Array.prototype.sort is stable
SortByRelevance(s) ==
    IF s = <<>> THEN <<>>
    ELSE InsertByRelevance(s[Len(s)], SortByRelevance(SubSeq(s, 1, Len(s) - 1)))

\* themes of the columns pushed whether or not a pattern matched
CandidateThemesMixed(t, st) ==
    LET found == PatternThemes(LowerWords(t), TokenCount(t),
                               LongSentences(Sentences(t)), 1)
    IN  IF st.hasColumns
        THEN found \o StructuralThemes(st.columns)
        ELSE found

\* the themes pushed before the final sort
CandidateThemes(t, st) ==
    LET found == PatternThemes(LowerWords(t), TokenCount(t),
                               LongSentences(Sentences(t)), 1)
    IN  IF found = <<>> /\ st.hasColumns
        THEN StructuralThemes(st.columns)
        ELSE found

extractKeyThemes(t, st) == Slice(SortByRelevance(CandidateThemes(t, st)), 0, 8)

----------------------------------------------------------------------------
(* generateSubtopics                                                       *)

subtopicNames ==
    << <<" ","F","r","a","m","e","w","o","r","k">>,
       <<" ","I","m","p","l","e","m","e","n","t","a","t","i","o","n">>,
       <<" ","B","e","s","t"," ","P","r","a","c","t","i","c","e","s">>,
       <<" ","M","e","t","h","o","d","o","l","o","g","y">>,
       <<" ","G","u","i","d","e","l","i","n","e","s">>,
       <<" ","S","t","a","n","d","a","r","d","s">> >>

\* a count that rounds relevance / 3 up
subCountRoundedUp(theme) == Min(3, Max(1, (theme.relevance + 2) \div 3))

\* Math.min(3, Math.max(1, Math.floor(theme.relevance / 3)))
subCount(theme) == Min(3, Max(1, theme.relevance \div 3))

\* subtopics whose importance is theme.relevance - i
ThemeSubtopicsOffByOne(theme) ==
    [k \in 1..subCount(theme) |->
        [name |-> theme.name \o subtopicNames[((k - 1) % Len(subtopicNames)) + 1],
         parentTheme |-> theme.name,
         importance |-> theme.relevance - (k - 1),
         summary |-> [tpl |-> "Specific aspects and applications of ${name} covered in the document",
                      arg |-> toLowerCase(theme.name)]]]

\* the subtopics pushed for one theme, i = 0 .. subCount - 1
ThemeSubtopics(theme) ==
    [k \in 1..subCount(theme) |->
        [name |-> theme.name \o subtopicNames[((k - 1) % Len(subtopicNames)) + 1],
         parentTheme |-> theme.name,
         importance |-> theme.relevance - k,
         summary |-> [tpl |-> "Specific aspects and applications of ${name} covered in the document",
                      arg |-> toLowerCase(theme.name)]]]

RECURSIVE generateSubtopics(_)
generateSubtopics(ths) ==
    IF ths = <<>> THEN <<>>
    ELSE ThemeSubtopics(Head(ths)) \o generateSubtopics(Tail(ths))

----------------------------------------------------------------------------
(* generateConnections                                                     *)

relationshipTypes ==
    <<"supports", "relates to", "influences", "complements", "integrates with">>

\* the outcomes of Math.floor(Math.random() * relationshipTypes.length) of one
\* call, in order: the k-th draw (k = 0, 1, ...) of the stream rnd
Draw(rnd, k) == (rnd.first + k * rnd.stride) % Len(relationshipTypes)

RECURSIVE IndexPairsAdjacent(_, _, _)
\* the pairs of a loop that stops at j < Math.min(n, i + 2)
IndexPairsAdjacent(n, i, j) ==
    IF i >= n - 1 THEN <<>>
    ELSE IF j < Min(n, i + 2)
         THEN << <<i, j>> >> \o IndexPairsAdjacent(n, i, j + 1)
         ELSE IndexPairsAdjacent(n, i + 1, i + 2)

RECURSIVE IndexPairs(_, _, _)
\* for (i = 0; i < n - 1; i++) for (j = i + 1; j < Math.min(n, i + 3); j++)
IndexPairs(n, i, j) ==
    IF i >= n - 1 THEN <<>>
    ELSE IF j < Min(n, i + 3)
         THEN << <<i, j>> >> \o IndexPairs(n, i, j + 1)
         ELSE IndexPairs(n, i + 1, i + 2)

\* a strength computed from the signed difference of the relevances
strengthSigned(a, b) == Max(3, 10 - (a - b))

\* Math.max(3, 10 - Math.abs(themes[i].relevance - themes[j].relevance))
strength(a, b) == Max(3, 10 - Abs(a - b))

generateConnections(ths, rnd) ==
    LET pairs == IndexPairs(Len(ths), 0, 1)
        all == [k \in 1..Len(pairs) |->
                  LET a == ths[pairs[k][1] + 1]
                      b == ths[pairs[k][2] + 1]
                  IN  [from |-> a.name,
                       to |-> b.name,
                       relationshipType |-> relationshipTypes[Draw(rnd, k - 1) + 1],
                       strength |-> strength(a.relevance, b.relevance)]]
    IN  Slice(all, 0, 6)

----------------------------------------------------------------------------
(* Values of the props: a field of summaryData or a cell of a row is       *)
(* undefined, a string (kept as a text) or a number (kept with the text    *)
(* its string coercion yields)                                             *)

Undefined == [t |-> "undefined", v |-> EmptyText]
Str(txt) == [t |-> "string", v |-> txt]
Num(txt) == [t |-> "number", v |-> txt]

\* Boolean(value): '' and undefined are falsy, the numbers used here are not 0
Truthy(val) ==
    \/ val.t = "number"
    \/ val.t = "string" /\ val.v # EmptyText

RECURSIVE Repeat(_, _)
Repeat(s, n) ==
    IF n = 0 THEN <<>>
    ELSE IF n = 1 THEN s
    ELSE s \o <<" ">> \o Repeat(s, n - 1)

RECURSIVE Flatten(_)
\* the characters of a text
Flatten(t) ==
    IF t = <<>> THEN <<>>
    ELSE IF Len(t) = 1 THEN Repeat(Head(t).w, Head(t).n)
    ELSE Repeat(Head(t).w, Head(t).n) \o <<" ">> \o Flatten(Tail(t))

\* row[col]
Cell(row, col) ==
    IF \E k \in 1..Len(row.keys) : row.keys[k] = col
    THEN row.vals[CHOOSE k \in 1..Len(row.keys) : row.keys[k] = col]
    ELSE Undefined

textColumnWords ==
    { <<"t","i","t","l","e">>,
      <<"d","e","s","c","r","i","p","t","i","o","n">>,
      <<"c","o","n","t","e","n","t">>,
      <<"t","e","x","t">>,
      <<"s","u","m","m","a","r","y">> }

\* columns.filter(col => col.toLowerCase().includes('title') || ...)
RECURSIVE TextColumns(_)
TextColumns(columns) ==
    IF columns = <<>> THEN <<>>
    ELSE (IF \E word \in textColumnWords : Includes(toLowerCase(Head(columns)), word)
          THEN <<Head(columns)>> ELSE <<>>)
         \o TextColumns(Tail(columns))

RECURSIVE RowText(_, _)
\* textColumns.map(col => row[col]).filter(Boolean).join(' '), as a token list;
\* no truthy cell at all gives ''
RowText(row, textCols) ==
    IF textCols = <<>> THEN <<>>
    ELSE (IF Truthy(Cell(row, Head(textCols)))
          THEN Cell(row, Head(textCols)).v ELSE <<>>)
         \o RowText(row, Tail(textCols))

RowString(row, textCols) ==
    IF RowText(row, textCols) = <<>> THEN EmptyText ELSE RowText(row, textCols)

RECURSIVE CombinedText(_, _)
\* rows.map(row => ...).join(' ')
CombinedText(rows, textCols) ==
    IF rows = <<>> THEN <<>>
    ELSE RowString(Head(rows), textCols) \o CombinedText(Tail(rows), textCols)

NoStructure == [hasColumns |-> FALSE, columns |-> <<>>,
                textColumns |-> <<>>, recordCount |-> 0]

\* the free text picked from summaryData: content, else text, else description
SummaryText(summary) ==
    IF summary.isNull THEN Str(EmptyText)
    ELSE IF Truthy(summary.content) THEN summary.content
    ELSE IF Truthy(summary.text) THEN summary.text
    ELSE IF Truthy(summary.description) THEN summary.description
    ELSE Str(EmptyText)

\* analyzeDocumentTopics(data, summaryData): threw is TRUE when the call raises a
\* TypeError: row[col] on a null row, or trim() on a textContent that is no string
analyzeDocumentTopics(data, summary) ==
    LET free == SummaryText(summary)
        hasRows == ~data.isNull /\ Len(data.rows) > 0
        first == IF hasRows THEN data.rows[1] ELSE [isNull |-> TRUE, keys |-> <<>>, vals |-> <<>>]
        columns == IF first.isNull THEN <<>> ELSE first.keys
        textCols == TextColumns(columns)
        used == IF hasRows THEN Slice(data.rows, 0, 20) ELSE <<>>
        nullRow == textCols # <<>> /\ \E k \in 1..Len(used) : used[k].isNull
    IN  IF hasRows
        THEN IF nullRow
             THEN [threw |-> TRUE, textContent |-> EmptyText,
                   documentStructure |-> NoStructure]
             ELSE [threw |-> FALSE,
                   textContent |-> Trim(JoinSpace(free.v, CombinedText(used, textCols))),
                   documentStructure |->
                       [hasColumns |-> TRUE, columns |-> columns,
                        textColumns |-> textCols, recordCount |-> Len(data.rows)]]
        ELSE IF free.t # "string"
             THEN [threw |-> TRUE, textContent |-> EmptyText,
                   documentStructure |-> NoStructure]
             ELSE [threw |-> FALSE, textContent |-> Trim(free.v),
                   documentStructure |-> NoStructure]

----------------------------------------------------------------------------
(* The main topic                                                          *)

RECURSIVE CountWord(_, _, _)
\* wordFreq[word] = (wordFreq[word] || 0) + 1, n times; a new key goes last
CountWord(freq, word, n) ==
    IF freq = <<>> THEN <<[word |-> word, count |-> n]>>
    ELSE IF Head(freq).word = word
         THEN <<[word |-> word, count |-> Head(freq).count + n]>> \o Tail(freq)
         ELSE <<Head(freq)>> \o CountWord(Tail(freq), word, n)

RECURSIVE CountWords(_, _, _)
CountWords(freq, ws, n) ==
    IF ws = <<>> THEN freq
    ELSE CountWords(IF Len(Head(ws)) > 4 THEN CountWord(freq, Head(ws), n) ELSE freq,
                    Tail(ws), n)

RECURSIVE WordFreq(_, _)
\* the entries of wordFreq in insertion order, over the lower-cased text
WordFreq(t, freq) ==
    IF t = <<>> THEN freq
    ELSE WordFreq(Tail(t),
                  CountWords(freq, SplitWords(toLowerCase(Head(t).w), 1, <<>>), Head(t).n))

RECURSIVE InsertByCount(_, _)
InsertByCount(x, s) ==
    IF s = <<>> THEN <<x>>
    ELSE IF Head(s).count >= x.count
         THEN <<Head(s)>> \o InsertByCount(x, Tail(s))
         ELSE <<x>> \o s

RECURSIVE SortByCount(_)
\* Object.entries(wordFreq).sort(([,a], [,b]) => b - a), a stable sort
SortByCount(s) ==
    IF s = <<>> THEN <<>>
    ELSE InsertByCount(s[Len(s)], SortByCount(SubSeq(s, 1, Len(s) - 1)))

RECURSIVE JoinAmp(_)
\* topWords.join(' & ')
JoinAmp(ws) ==
    IF ws = <<>> THEN <<>>
    ELSE IF Len(ws) = 1 THEN Head(ws).word
    ELSE Head(ws).word \o <<" ","&"," ">> \o JoinAmp(Tail(ws))

DefaultMainTopic ==
    <<"D","o","c","u","m","e","n","t"," ","A","n","a","l","y","s","i","s">>

\* a mainTopic taken from the words of the text even when there are none
MainTopicFromWords(summary, textContent) ==
    LET topWords == Slice(SortByCount(WordFreq(textContent, <<>>)), 0, 3)
    IN  IF ~summary.isNull /\ Truthy(summary.title) THEN Flatten(summary.title.v)
        ELSE IF ~summary.isNull /\ Truthy(summary.mainTopic)
             THEN Flatten(summary.mainTopic.v)
        ELSE CapitalizeWords(JoinAmp(topWords))

\* a resolution that looks at the field mainTopic before the title
MainTopicFieldFirst(summary, textContent) ==
    LET topWords == Slice(SortByCount(WordFreq(textContent, <<>>)), 0, 3)
    IN  IF ~summary.isNull /\ Truthy(summary.mainTopic)
        THEN Flatten(summary.mainTopic.v)
        ELSE IF ~summary.isNull /\ Truthy(summary.title) THEN Flatten(summary.title.v)
        ELSE IF TextLength(textContent) > 0 /\ topWords # <<>>
             THEN CapitalizeWords(JoinAmp(topWords))
        ELSE DefaultMainTopic

\* the value of mainTopic after lines 204-224
MainTopic(summary, textContent) ==
    LET topWords == Slice(SortByCount(WordFreq(textContent, <<>>)), 0, 3)
    IN  IF ~summary.isNull /\ Truthy(summary.title) THEN Flatten(summary.title.v)
        ELSE IF ~summary.isNull /\ Truthy(summary.mainTopic)
             THEN Flatten(summary.mainTopic.v)
        ELSE IF TextLength(textContent) > 0 /\ topWords # <<>>
             THEN CapitalizeWords(JoinAmp(topWords))
        ELSE DefaultMainTopic

----------------------------------------------------------------------------
(* The body of the try block of generateTopicMapping                       *)

Names(s) == [i \in 1..Len(s) |-> s[i].name]

Insight(template, count, argument) ==
    [tpl |-> template, n |-> count, arg |-> argument]

GenericFocus ==
    <<"c","o","m","p","r","e","h","e","n","s","i","v","e"," ","a","n","a","l","y","s","i","s">>

\* lines 236-242; keyThemes[0]?.name || '...' takes the generic phrase also
\* for a first theme whose name is ''
documentInsights(keyThemes, subs, conns, textContent) ==
    << Insight("Document contains ${n} major thematic areas", Len(keyThemes), <<>>),
       Insight("${n} specific subtopics identified for detailed analysis", Len(subs), <<>>),
       Insight("Cross-topic relationships suggest ${n} conceptual connections", Len(conns), <<>>),
       Insight("Primary focus appears to be on ${name}", 0,
               IF keyThemes # <<>> /\ keyThemes[1].name # <<>> THEN keyThemes[1].name
               ELSE GenericFocus),
       Insight(IF TextLength(textContent) > 1000
               THEN "Rich content suitable for in-depth topic modeling"
               ELSE "Concise content with focused thematic structure", 0, <<>>) >>

topicHierarchy(keyThemes, subs) ==
    [primary |-> Names(Slice(keyThemes, 0, 3)),
     secondary |-> Names(Slice(keyThemes, 3, 6)),
     supporting |-> Names(Slice(subs, 0, 4))]

\* a mapping whose mainTopic depends on the first random draw
generatedMappingDrawn(in, rnd) ==
    LET analysed == analyzeDocumentTopics(in.data, in.summaryData)
        keyThemes == extractKeyThemes(analysed.textContent, analysed.documentStructure)
        subs == generateSubtopics(keyThemes)
        conns == generateConnections(keyThemes, rnd)
    IN  [mainTopic |-> IF Draw(rnd, 0) = 0
                       THEN MainTopic(in.summaryData, analysed.textContent)
                       ELSE DefaultMainTopic,
         keyThemes |-> keyThemes,
         subtopics |-> subs,
         connections |-> conns,
         documentInsights |-> documentInsights(keyThemes, subs, conns, analysed.textContent),
         topicHierarchy |-> topicHierarchy(keyThemes, subs)]

\* generatedMapping, for an input on which analyzeDocumentTopics does not throw
generatedMapping(in, rnd) ==
    LET analysed == analyzeDocumentTopics(in.data, in.summaryData)
        keyThemes == extractKeyThemes(analysed.textContent, analysed.documentStructure)
        subs == generateSubtopics(keyThemes)
        conns == generateConnections(keyThemes, rnd)
    IN  [mainTopic |-> MainTopic(in.summaryData, analysed.textContent),
         keyThemes |-> keyThemes,
         subtopics |-> subs,
         connections |-> conns,
         documentInsights |-> documentInsights(keyThemes, subs, conns, analysed.textContent),
         topicHierarchy |-> topicHierarchy(keyThemes, subs)]

\* the try block raises
Throws(in) == analyzeDocumentTopics(in.data, in.summaryData).threw

----------------------------------------------------------------------------
(* The inputs the pipeline is run on                                       *)

MaxRep == 1            \* extra repetitions of one emphasised keyword
MaxFillerBlocks == 2   \* blocks of filler words in a text
FillerBlock == 150     \* filler words per block
MaxColumns == 7        \* columns of a row
MaxStride == 1         \* strides of the random streams
MaxSentences == 3      \* sentences of a text made of sentences

Filler == <<"l","o","r","e","m">>

\* one word per catalog entry 1, 2, 4..9, and a word shared by entries 3 and 10;
\* the second one is capitalised and ends a sentence
Vocabulary ==
    << <<"d","a","t","a">>,
       <<"R","e","s","e","a","r","c","h",".">>,
       <<"p","e","r","f","o","r","m","a","n","c","e">>,
       <<"s","o","f","t","w","a","r","e">>,
       <<"l","e","a","r","n","i","n","g">>,
       <<"p","a","t","i","e","n","t">>,
       <<"b","u","d","g","e","t">>,
       <<"s","a","l","e","s">>,
       <<"w","o","r","k","f","l","o","w">> >>

RECURSIVE KeywordRuns(_, _, _, _)
\* the vocabulary words of S once each, the word emph another extra times
KeywordRuns(S, emph, extra, k) ==
    IF k > Len(Vocabulary) THEN <<>>
    ELSE LET count == (IF k \in S THEN 1 ELSE 0) + (IF k = emph THEN extra ELSE 0)
         IN  (IF count > 0 THEN <<Run(Vocabulary[k], count)>> ELSE <<>>)
             \o KeywordRuns(S, emph, extra, k + 1)

TextOf(S, emph, extra, blocks) ==
    LET rs == (IF blocks > 0 THEN <<Run(Filler, blocks * FillerBlock)>> ELSE <<>>)
              \o KeywordRuns(S, emph, extra, 1)
    IN  IF rs = <<>> THEN EmptyText ELSE rs

Words == 1..Len(Vocabulary)

Texts ==
    {TextOf(S, emph, extra, blocks) :
        S \in SUBSET Words, emph \in {0} \cup Words,
        extra \in 1..MaxRep, blocks \in 0..MaxFillerBlocks}

PlainTexts == {TextOf({}, 0, 1, blocks) : blocks \in 0..MaxFillerBlocks}

OneWordTexts == {TextOf({k}, 0, 1, blocks) : k \in Words, blocks \in 0..MaxFillerBlocks}

ColumnUniverse ==
    << <<"t","i","t","l","e">>,
       <<"f","i","r","s","t","_","n","a","m","e">>,
       <<"f","i","r","s","t","-","n","a","m","e">>,
       <<"F","i","r","s","t","_","N","a","m","e">>,
       <<"i","d">>,
       <<"a","g","e">>,
       <<"c","i","t","y">>,
       <<"n","o","t","e","_","t","e","x","t">> >>

RECURSIVE Pick(_, _)
\* the columns of S in the order of the universe
Pick(S, k) ==
    IF k > Len(ColumnUniverse) THEN <<>>
    ELSE (IF k \in S THEN <<ColumnUniverse[k]>> ELSE <<>>) \o Pick(S, k + 1)

Reverse(s) == [i \in 1..Len(s) |-> s[Len(s) + 1 - i]]

StructureOf(columns) ==
    [hasColumns |-> TRUE, columns |-> columns,
     textColumns |-> TextColumns(columns), recordCount |-> 1]

ColumnLists ==
    {IF rev THEN Reverse(Pick(S, 1)) ELSE Pick(S, 1) :
        S \in {T \in SUBSET (1..Len(ColumnUniverse)) : Cardinality(T) <= MaxColumns},
        rev \in BOOLEAN}

Structures == {StructureOf(c) : c \in ColumnLists}

\* the shapes of a sentence: lead filler words, the keyword "data" or not,
\* tail filler words, and a full stop after the last word. The fourth one is
\* 100 characters long, the fifth one longer, the sixth one 11 characters
SentenceShapes ==
    << [lead |-> 0, kw |-> TRUE, tail |-> 4],
       [lead |-> 3, kw |-> TRUE, tail |-> 1],
       [lead |-> 0, kw |-> FALSE, tail |-> 5],
       [lead |-> 16, kw |-> TRUE, tail |-> 0],
       [lead |-> 20, kw |-> TRUE, tail |-> 0],
       [lead |-> 0, kw |-> TRUE, tail |-> 1] >>

SentenceRuns(shape) ==
    (IF shape.lead > 0 THEN <<Run(Filler, shape.lead)>> ELSE <<>>)
    \o (IF shape.kw
        THEN <<Run(IF shape.tail = 0 THEN <<"d","a","t","a",".">> ELSE <<"d","a","t","a">>, 1)>>
        ELSE <<>>)
    \o (IF shape.tail > 1 THEN <<Run(Filler, shape.tail - 1)>> ELSE <<>>)
    \o (IF shape.tail > 0 THEN <<Run(Filler \o <<".">>, 1)>> ELSE <<>>)

RECURSIVE SentenceText(_)
\* the sentences of the shapes picked, separated by single spaces
SentenceText(picks) ==
    IF picks = <<>> THEN <<>>
    ELSE SentenceRuns(SentenceShapes[Head(picks)]) \o SentenceText(Tail(picks))

SentenceTexts ==
    {SentenceText(picks) :
        picks \in UNION {[1..n -> 1..Len(SentenceShapes)] : n \in 1..MaxSentences}}

PipelineInputs ==
    (Texts \X {NoStructure})
    \cup (PlainTexts \X Structures)
    \cup (OneWordTexts \X {st \in Structures : Len(st.columns) <= 1})
    \cup (SentenceTexts \X {NoStructure})

\* the streams of random draws a call may see: any first draw, the later ones
\* following at a fixed stride, so that every label occurs at every position
RandomStreams == [first : 0..(Len(relationshipTypes) - 1), stride : 1..MaxStride]

NoStream == [first |-> 0, stride |-> 0]

----------------------------------------------------------------------------
(* The inputs of the orchestrator: the props data and summaryData          *)

NullSummary ==
    [isNull |-> TRUE, content |-> Undefined, text |-> Undefined,
     description |-> Undefined, title |-> Undefined, mainTopic |-> Undefined]

EmptySummary == [NullSummary EXCEPT !.isNull = FALSE]

NullData == [isNull |-> TRUE, rows |-> <<>>]

Rows(rs) == [isNull |-> FALSE, rows |-> rs]

Row(ks, vs) == [isNull |-> FALSE, keys |-> ks, vals |-> vs]

Word(chars) == Str(<<Run(chars, 1)>>)

\* the props the component is rendered with, one entry per distinct pair of
\* references (data, summaryData)
InputPool ==
    << \* a summary whose content matches four catalog entries, no rows
       [data |-> NullData,
        summaryData |-> [EmptySummary EXCEPT
            !.content = Str(<<Run(Filler, FillerBlock),
                              Run(<<"d","a","t","a">>, 2),
                              Run(<<"R","e","s","e","a","r","c","h",".">>, 1),
                              Run(<<"p","e","r","f","o","r","m","a","n","c","e">>, 1)>>)]],
       \* rows without keyword, no summary: the structural fallback
       [data |-> Rows(<<Row(<<ColumnUniverse[1], ColumnUniverse[2],
                              ColumnUniverse[5], ColumnUniverse[3]>>,
                            <<Word(<<"A","l","p","h","a">>), Word(<<"x">>),
                              Word(<<"1">>), Word(<<"y">>)>>),
                        Row(<<ColumnUniverse[1], ColumnUniverse[2],
                              ColumnUniverse[5], ColumnUniverse[3]>>,
                            <<Word(<<"B","e","t","a">>), Word(<<"x">>),
                              Word(<<"2">>), Word(<<"y">>)>>)>>),
        summaryData |-> NullSummary],
       \* a summary whose content is a number, no rows: trim() raises
       [data |-> Rows(<<>>),
        summaryData |-> [EmptySummary EXCEPT !.content = Num(<<Run(<<"5">>, 1)>>)]],
       \* no text, no rows
       [data |-> Rows(<<>>), summaryData |-> EmptySummary],
       \* a titled summary and rows of which the second is null: row[col] raises
       [data |-> Rows(<<Row(<<ColumnUniverse[1]>>, <<Word(<<"d","a","t","a">>)>>),
                        [isNull |-> TRUE, keys |-> <<>>, vals |-> <<>>]>>),
        summaryData |-> [EmptySummary EXCEPT !.title = Word(<<"R","e","p","o","r","t">>)]],
       \* neither data nor summaryData
       [data |-> NullData, summaryData |-> NullSummary]
    >>

\* if (!data && !summaryData): the component renders "No Document to Analyze"
\* with the button "Go Back" and nothing else
NoDocument(in) == in.data.isNull /\ in.summaryData.isNull

Inputs == 1..Len(InputPool)

MaxRuns == 4      \* calls of generateTopicMapping in one behaviour
MaxChanges == 2   \* changes of the props in one behaviour

ErrorMessage == "Failed to analyze document topics"

\* the position of a stream in the tables below
StreamIndex(rnd) == rnd.first + Len(relationshipTypes) * (rnd.stride - 1) + 1

StreamAt(k) ==
    [first |-> (k - 1) % Len(relationshipTypes),
     stride |-> ((k - 1) \div Len(relationshipTypes)) + 1]

RECURSIVE ResultsUpTo(_, _)
\* generatedMapping on input i with each of the first k streams
ResultsUpTo(i, k) ==
    IF k = 0 THEN <<>>
    ELSE Append(ResultsUpTo(i, k - 1), <<generatedMapping(InputPool[i], StreamAt(k))>>)

RECURSIVE TryBlockUpTo(_)
TryBlockUpTo(i) ==
    IF i = 0 THEN <<>>
    ELSE Append(TryBlockUpTo(i - 1),
                [threw |-> Throws(InputPool[i]),
                 result |-> IF Throws(InputPool[i]) THEN <<>>
                            ELSE ResultsUpTo(i, Cardinality(RandomStreams))])

\* what the try block does on each input of the pool: it raises, or it builds
\* generatedMapping with the labels drawn (a table, computed once)
TryBlock == TryBlockUpTo(Len(InputPool))

----------------------------------------------------------------------------
(* Specification SpecPipeline: the pipeline functions applied to one input *)

OrchIdle ==
    /\ input = 1
    /\ mounted = FALSE
    /\ mapping = <<>>
    /\ loading = FALSE
    /\ error = <<>>
    /\ runs = <<>>
    /\ nextRun = 0
    /\ mappingRun = 0
    /\ changes = 0
    /\ outcome = <<>>

PipeIdle ==
    /\ text = EmptyText
    /\ structure = NoStructure
    /\ labels = NoStream
    /\ themes = <<>>
    /\ subtopics = <<>>
    /\ connections = <<>>
    /\ pstep = "off"

TopicIdle ==
    /\ topicInput = [data |-> NullData, summaryData |-> NullSummary]
    /\ mainTopic = <<>>
    /\ tstep = "off"

AnalysisIdle ==
    /\ analysisInput = [data |-> NullData, summaryData |-> NullSummary]
    /\ generated = <<>>
    /\ astep = "off"

\* the state of QuizSection after its first render
QuizIdle ==
    /\ quiz = <<>>
    /\ isGenerating = FALSE
    /\ currentQuestion = 0
    /\ selectedAnswer = <<>>
    /\ showResult = FALSE
    /\ score = 0
    /\ answeredQuestions = <<>>
    /\ generating = FALSE
    /\ advances = <<>>
    /\ presses = 0

\* the state of Index and FileUpload after their first render
WizardIdle ==
    /\ currentStep = 1
    /\ uploadedData = NullData
    /\ rendered = "FileUpload"
    /\ uploadedFile = <<>>
    /\ parsedData = <<>>
    /\ fileType = "null"
    /\ reads = <<>>
    /\ toast = "none"
    /\ lastCall = [name |-> "none", at |-> 0, file |-> <<>>]
    /\ uploads = 0
    /\ dataUploads = 0

\* the state of what a specification leaves out
OthersIdle == TopicIdle /\ AnalysisIdle /\ QuizIdle /\ WizardIdle

InitPipeline ==
    /\ OthersIdle
    /\ \E p \in PipelineInputs : text = p[1] /\ structure = p[2]
    /\ labels = NoStream
    /\ themes = <<>>
    /\ subtopics = <<>>
    /\ connections = <<>>
    /\ pstep = "input"
    /\ OrchIdle

\* const keyThemes = extractKeyThemes(textContent, documentStructure)
ExtractStep ==
    /\ pstep = "input"
    /\ themes' = extractKeyThemes(text, structure)
    /\ pstep' = "themes"
    /\ UNCHANGED <<text, structure, labels, subtopics, connections, orchVars, otherVars>>

\* const subtopics = generateSubtopics(keyThemes, textContent)
SubtopicsStep ==
    /\ pstep = "themes"
    /\ subtopics' = generateSubtopics(themes)
    /\ pstep' = "subtopics"
    /\ UNCHANGED <<text, structure, labels, themes, connections, orchVars, otherVars>>

\* const connections = generateConnections(keyThemes, subtopics)
ConnectionsStep ==
    /\ pstep = "subtopics"
    /\ \E rnd \in RandomStreams :
          /\ labels' = rnd
          /\ connections' = generateConnections(themes, rnd)
    /\ pstep' = "done"
    /\ UNCHANGED <<text, structure, themes, subtopics, orchVars, otherVars>>

NextPipeline == ExtractStep \/ SubtopicsStep \/ ConnectionsStep

SpecPipeline == InitPipeline /\ [][NextPipeline]_vars

----------------------------------------------------------------------------
(* Specification Spec: the component DataMapping                           *)

Init ==
    /\ PipeIdle
    /\ OthersIdle
    /\ input \in Inputs
    /\ mounted = FALSE
    /\ mapping = <<>>
    /\ loading = FALSE
    /\ error = <<>>
    /\ runs = <<>>
    /\ nextRun = 0
    /\ mappingRun = 0
    /\ changes = 0
    /\ outcome = <<>>

\* a call that leaves the error of an earlier call in place
StartRunKeepError(i) ==
    /\ nextRun < MaxRuns
    /\ loading' = TRUE
    /\ nextRun' = nextRun + 1
    /\ runs' = Append(runs, [id |-> nextRun + 1, input |-> i])
    /\ outcome' = Append(outcome, "pending")
    /\ UNCHANGED <<mapping, mappingRun, error>>

\* generateTopicMapping up to its await: setLoading(true); setError(null); the
\* rest waits for the 2500 ms timer, with the data and summaryData of the
\* render the called function belongs to
StartRun(i) ==
    /\ nextRun < MaxRuns
    /\ loading' = TRUE
    /\ error' = <<>>
    /\ nextRun' = nextRun + 1
    /\ runs' = Append(runs, [id |-> nextRun + 1, input |-> i])
    /\ outcome' = Append(outcome, "pending")
    /\ UNCHANGED <<mapping, mappingRun>>

\* useEffect(() => { generateTopicMapping(); }, [data, summaryData]) on mount
MountEffect ==
    /\ ~mounted
    /\ mounted' = TRUE
    /\ StartRun(input)
    /\ UNCHANGED <<input, changes, pipeVars, otherVars>>

\* the parent renders the component with another data or summaryData: the
\* effect runs again
ChangeProps ==
    /\ mounted
    /\ changes < MaxChanges
    /\ \E i \in Inputs \ {input} :
          /\ input' = i
          /\ StartRun(i)
    /\ changes' = changes + 1
    /\ UNCHANGED <<mounted, pipeVars, otherVars>>

\* the button "Retry Analysis", rendered while error is set
RetryClick ==
    /\ mounted
    /\ ~NoDocument(InputPool[input])
    /\ error # <<>>
    /\ StartRun(input)
    /\ UNCHANGED <<input, mounted, changes, pipeVars, otherVars>>

\* the button "Re-analyze Topics", rendered while mapping is set, disabled
\* while loading
ReanalyzeClick ==
    /\ mounted
    /\ ~NoDocument(InputPool[input])
    /\ mapping # <<>>
    /\ ~loading
    /\ StartRun(input)
    /\ UNCHANGED <<input, mounted, changes, pipeVars, otherVars>>

\* a catch block after a try block that had stored a half-built mapping
CatchErrorPartial(run) ==
    /\ error' = <<ErrorMessage>>
    /\ outcome' = [outcome EXCEPT ![run.id] = "failed"]
    /\ mapping' = <<[mainTopic |-> DefaultMainTopic]>>
    /\ mappingRun' = run.id

\* a catch block that throws the error on
CatchErrorRethrow(run) ==
    /\ outcome' = [outcome EXCEPT ![run.id] = "escaped"]
    /\ UNCHANGED <<error, mapping, mappingRun>>

\* the catch block
CatchError(run) ==
    /\ error' = <<ErrorMessage>>
    /\ outcome' = [outcome EXCEPT ![run.id] = "failed"]
    /\ UNCHANGED <<mapping, mappingRun>>

\* the timer of the oldest waiting call fires: the try block runs to
\* setMapping or to the catch block, then finally sets loading to false.
\* Timers of equal delay fire in the order they were set.
TimerFires ==
    /\ runs # <<>>
    /\ LET run == Head(runs)
       IN  IF TryBlock[run.input].threw
           THEN CatchError(run)
           ELSE /\ \E rnd \in RandomStreams :
                      mapping' = TryBlock[run.input].result[StreamIndex(rnd)]
                /\ mappingRun' = run.id
                /\ outcome' = [outcome EXCEPT ![run.id] = "ready"]
                /\ UNCHANGED error
    /\ runs' = Tail(runs)
    /\ loading' = FALSE
    /\ UNCHANGED <<input, mounted, nextRun, changes, pipeVars, otherVars>>

Next == MountEffect \/ ChangeProps \/ RetryClick \/ ReanalyzeClick \/ TimerFires

Spec == Init /\ [][Next]_vars

\* the timer of a waiting call does fire
FairSpec == Spec /\ WF_vars(TimerFires)

----------------------------------------------------------------------------
(* Properties of the pipeline (checked under SpecPipeline)                 *)

InCatalog(name) == \E k \in 1..Len(topicPatterns) : topicPatterns[k].theme = name

CatalogIndex(name) == CHOOSE k \in 1..Len(topicPatterns) : topicPatterns[k].theme = name

RECURSIVE MatchCountsFrom(_, _)
\* per catalog entry from the k-th on, the number of matches in the words lw
MatchCountsFrom(lw, k) ==
    IF k > Len(topicPatterns) THEN <<>>
    ELSE <<MatchCount(lw, topicPatterns[k].pattern)>> \o MatchCountsFrom(lw, k + 1)


\* theme a is ranked before theme b: more relevant, or as relevant and declared
\* earlier in the catalog
RankedBefore(a, b) ==
    \/ a.relevance > b.relevance
    \/ /\ a.relevance = b.relevance
       /\ InCatalog(a.name) /\ InCatalog(b.name)
       /\ CatalogIndex(a.name) < CatalogIndex(b.name)

ThemeNames == {themes[i].name : i \in 1..Len(themes)}

\* C1: the themes returned by extractKeyThemes are at most 8, ordered by
\* descending relevance with equal relevance in catalog declaration order, and
\* when more than 8 entries matched, every entry left out ranks after every
\* theme kept
C1_ThemesRankedAndCapped ==
    pstep = "themes" =>
        \A lw \in {LowerWords(text)}, words \in {TokenCount(text)} :
            \A counts \in {MatchCountsFrom(lw, 1)} :
            \A matched \in {{k \in 1..Len(topicPatterns) : counts[k] > 0}} :
                /\ Len(themes) <= 8
                /\ \A i, j \in 1..Len(themes) :
                      i < j => RankedBefore(themes[i], themes[j])
                /\ matched # {} =>
                      /\ Len(themes) = Min(8, Cardinality(matched))
                      /\ \A i \in 1..Len(themes) :
                            CatalogIndex(themes[i].name) \in matched
                      /\ \A k \in matched :
                            topicPatterns[k].theme \notin ThemeNames =>
                                \A i \in 1..Len(themes) :
                                    RankedBefore(themes[i],
                                        [name |-> topicPatterns[k].theme,
                                         relevance |-> Relevance(counts[k], words)])

\* more than 8 entries matched, two themes tie, and the sort moved a later
\* entry in front of an earlier one
C1_Witness ==
    /\ pstep = "themes"
    /\ \E lw \in {LowerWords(text)} :
       \E counts \in {MatchCountsFrom(lw, 1)} :
          Cardinality({k \in 1..Len(topicPatterns) : counts[k] > 0}) > 8
    /\ \E i, j \in 1..Len(themes) :
          i < j /\ themes[i].relevance = themes[j].relevance
    /\ \E i, j \in 1..Len(themes) :
          i < j /\ CatalogIndex(themes[i].name) > CatalogIndex(themes[j].name)

\* C2: every connection joins two different theme names that both exist in
\* the themes, and no unordered pair of names occurs in two connections
C2_ConnectionsWellFormed ==
    pstep = "done" =>
        /\ \A k \in 1..Len(connections) :
              /\ connections[k].from # connections[k].to
              /\ connections[k].from \in ThemeNames
              /\ connections[k].to \in ThemeNames
        /\ \A k, l \in 1..Len(connections) :
              k # l => {connections[k].from, connections[k].to}
                       # {connections[l].from, connections[l].to}

\* C3: no two themes of one result have the same name
C3_ThemeNamesUnique ==
    pstep # "input" =>
        \A i, j \in 1..Len(themes) : i # j => themes[i].name # themes[j].name

\* C13: the parentTheme of every subtopic is the name of a theme of the same
\* result with 0 <= importance <= relevance - 1, every theme has a relevance
\* in 3..10, and each theme has between 1 and 3 subtopics
C13_SubtopicsWithinParent ==
    pstep = "subtopics" =>
        /\ \A i \in 1..Len(themes) : themes[i].relevance \in 3..10
        /\ \A k \in 1..Len(subtopics) :
              \E i \in 1..Len(themes) :
                  /\ themes[i].name = subtopics[k].parentTheme
                  /\ 0 <= subtopics[k].importance
                  /\ subtopics[k].importance <= themes[i].relevance - 1
        /\ \A i \in 1..Len(themes) :
              Cardinality({k \in 1..Len(subtopics) :
                              subtopics[k].parentTheme = themes[i].name}) >= 1

\* themes of relevance 8 down to 3, the last one with a subtopic of
\* importance 2 and the first one with subtopics of importance 7 and 6
C13_Witness ==
    /\ pstep = "subtopics"
    /\ Len(themes) = 6
    /\ themes[1].relevance = 8 /\ themes[6].relevance = 3
    /\ subtopics[1].importance = 7 /\ subtopics[2].importance = 6
    /\ subtopics[Len(subtopics)].parentTheme = themes[6].name
    /\ subtopics[Len(subtopics)].importance = 2

\* the k-th (k = 0, 1, ...) of the pairs (i, j) with i < j <= i + 2 in the
\* order (0,1), (0,2), (1,2), (1,3), ...
PairAt(k) == <<k \div 2, (k \div 2) + 1 + (k % 2)>>

\* the number of pairs (i, j) with i < j <= i + 2 and j < n
PairCount(n) == IF n < 2 THEN 0 ELSE 2 * n - 3

\* C14: the connections are the first 6, or all when there are fewer, of the
\* pairs (i, j) with i < j <= i + 2 over the themes, in the order (0,1), (0,2),
\* (1,2), (1,3), ...: the k-th connection goes from the name of theme i to the
\* name of theme j of the k-th pair
C14_FirstSixPairs ==
    pstep = "done" =>
        /\ (Len(themes) >= 2 => PairAt(PairCount(Len(themes)) - 1)
                                    = <<Len(themes) - 2, Len(themes) - 1>>)
        /\ Len(connections) = Min(6, PairCount(Len(themes)))
        /\ \A k \in 1..Len(connections) :
              /\ connections[k].from = themes[PairAt(k - 1)[1] + 1].name
              /\ connections[k].to = themes[PairAt(k - 1)[2] + 1].name

\* eight themes have 13 pairs, of which the first 6 are kept: the last one
\* kept is (2, 4)
C14_Witness ==
    /\ pstep = "done"
    /\ Len(themes) = 8
    /\ Len(connections) = 6
    /\ connections[6].from = themes[3].name
    /\ connections[6].to = themes[5].name

\* the relevances the scorer produces: 3..10 from the patterns, 8..3 from the
\* columns
ScorerRelevances == 3..10

Distance(a, b) == IF a >= b THEN a - b ELSE b - a

ExpectedStrength(a, b) == IF 10 - Distance(a, b) < 3 THEN 3 ELSE 10 - Distance(a, b)

\* the strength of any two relevances the scorer produces is as expected
StrengthOfAllRelevances ==
    \A a, b \in ScorerRelevances :
        strength(a, b) = ExpectedStrength(a, b) /\ strength(a, b) \in 3..10

\* C15: the strength of every connection is max(3, 10 - |relevance(from) -
\* relevance(to)|) of the two themes it joins and lies in 3..10, and so does
\* the strength computed for any two relevances the scorer produces
C15_StrengthFormula ==
    /\ StrengthOfAllRelevances
    /\ pstep = "done" =>
          \A k \in 1..Len(connections) :
              /\ connections[k].strength =
                     ExpectedStrength(themes[PairAt(k - 1)[1] + 1].relevance,
                                      themes[PairAt(k - 1)[2] + 1].relevance)
              /\ connections[k].strength \in 3..10

\* connections between themes of equal relevance (strength 10) and between
\* themes three apart (strength 7)
C15_Witness ==
    /\ pstep = "done"
    /\ \E k \in 1..Len(connections) : connections[k].strength = 10
    /\ \E k \in 1..Len(connections) : connections[k].strength = 7

\* min(10, floor(matchCount / totalWordCount * 1000) + 3)
ExpectedRelevance(matchCount, totalWordCount) ==
    IF ((matchCount * 1000) \div totalWordCount) + 3 > 10
    THEN 10
    ELSE ((matchCount * 1000) \div totalWordCount) + 3

\* 5 matches among 50 words give 10, and one match among many words gives 3
RelevanceExamples ==
    /\ Relevance(5, 50) = 10
    /\ \A words \in 1001..1010 : Relevance(1, words) = 3

\* the theme was pushed for the k-th catalog entry
IsThemeOf(theme, k) ==
    /\ theme.name = topicPatterns[k].theme
    /\ theme.description = [tpl |-> topicPatterns[k].description, arg |-> <<>>]

\* C18: every relevance is an integer in 0..10; the theme of a catalog entry
\* with matchCount > 0 has relevance min(10, floor(matchCount /
\* totalWordCount * 1000) + 3), which is at least 3; an entry with
\* matchCount = 0 has no theme; and every theme found by the patterns belongs
\* to an entry that matched
C18_RelevanceFormula ==
    /\ RelevanceExamples
    /\ pstep = "themes" =>
          \A lw \in {LowerWords(text)}, words \in {TokenCount(text)} :
              \A counts \in {MatchCountsFrom(lw, 1)} :
                  /\ \A i \in 1..Len(themes) : themes[i].relevance \in 0..10
                  /\ \A k \in 1..Len(topicPatterns), i \in 1..Len(themes) :
                        IsThemeOf(themes[i], k) =>
                            /\ counts[k] > 0
                            /\ themes[i].relevance = ExpectedRelevance(counts[k], words)
                            /\ themes[i].relevance >= 3
                  /\ (\E k \in 1..Len(topicPatterns) : counts[k] > 0) =>
                        \A i \in 1..Len(themes) :
                            \E k \in 1..Len(topicPatterns) : IsThemeOf(themes[i], k)

\* themes of two matches (relevance 9) and of one match (relevance 6) among
\* more than 300 words
C18_Witness ==
    /\ pstep = "themes"
    /\ TokenCount(text) > 300
    /\ \E i, j \in 1..Len(themes) :
          /\ themes[i].relevance = 9
          /\ themes[j].relevance = 6
          /\ \E k \in 1..Len(topicPatterns) : IsThemeOf(themes[i], k)

\* the theme was pushed for a column
IsStructural(theme) == theme.description.tpl = "Data dimension: ${col}"

\* C19: themes of columns occur only when no catalog entry matched and the
\* structure has columns; then the themes are those of the first min(6,
\* number of columns) columns, one each in column order with relevance 8, 7,
\* 6, ...; without match and without columns there is no theme; and no result
\* holds both a theme of a pattern and a theme of a column
C19_StructuralFallback ==
    pstep = "themes" =>
        \A lw \in {LowerWords(text)} :
            \A matched \in {\E k \in 1..Len(topicPatterns) :
                                MatchCount(lw, topicPatterns[k].pattern) > 0} :
                /\ (\E i \in 1..Len(themes) : IsStructural(themes[i])) =>
                        ~matched /\ structure.hasColumns
                /\ (~matched /\ structure.hasColumns) =>
                        /\ Len(themes) = Min(6, Len(structure.columns))
                        /\ \A i \in 1..Len(themes) :
                              /\ IsStructural(themes[i])
                              /\ themes[i].description.arg = structure.columns[i]
                              /\ themes[i].relevance = 8 - (i - 1)
                /\ (~matched /\ ~structure.hasColumns) => themes = <<>>
                /\ \A i, j \in 1..Len(themes) :
                        IsStructural(themes[i]) <=> IsStructural(themes[j])

\* more than six columns and no match: six themes, of relevance 8 down to 3
C19_Witness ==
    /\ pstep = "themes"
    /\ Len(structure.columns) > 6
    /\ Len(themes) = 6
    /\ \A i \in 1..6 : IsStructural(themes[i]) /\ themes[i].relevance = 9 - i

\* the sentence, given with its words, holds a whole word of the keywords
ContainsMatch(scanned, keywords) ==
    \E r \in 1..Len(scanned.words) :
        \E x \in 1..Len(scanned.words[r].ws) : scanned.words[r].ws[x].w \in keywords

RECURSIVE MatchingSentences(_, _)
\* the sentences, in corpus order, that contain a match of the keywords
MatchingSentences(long, keywords) ==
    IF long = <<>> THEN <<>>
    ELSE (IF ContainsMatch(Head(long), keywords) THEN <<Head(long).sentence>> ELSE <<>>)
         \o MatchingSentences(Tail(long), keywords)

\* C21: the key points of a theme found by its pattern are at most 3 and are
\* those of the first up to 3 sentences, in corpus order, among the sentences
\* longer than 20 characters that contain a match of the pattern (the generic
\* key point when there is none)
C21_FirstMatchingSentences ==
    pstep = "themes" =>
        \A long \in {LongSentences(Sentences(text))} :
            \A i \in 1..Len(themes), k \in 1..Len(topicPatterns) :
                IsThemeOf(themes[i], k) =>
                    \A expected \in {Slice(MatchingSentences(long, topicPatterns[k].pattern), 0, 3)} :
                        /\ Len(themes[i].keyPoints) <= 3
                        /\ expected # <<>> =>
                              /\ Len(themes[i].keyPoints) = Len(expected)
                              /\ \A j \in 1..Len(expected) :
                                    themes[i].keyPoints[j] = SentenceKeyPoint(expected[j])
                        /\ expected = <<>> =>
                              themes[i].keyPoints =
                                  <<KeyPoint("Key aspects of ${theme} identified in the document",
                                             <<Run(toLowerCase(topicPatterns[k].theme), 1)>>,
                                             FALSE)>>

\* C22: a key point taken from a sentence is at most 100 characters of it,
\* the whole sentence when that has at most 100 characters, and it carries the
\* ellipsis exactly when characters of the sentence were cut off
C22_EllipsisIffTruncated ==
    pstep = "themes" =>
        \A long \in {LongSentences(Sentences(text))} :
            \A i \in 1..Len(themes), k \in 1..Len(topicPatterns) :
                IsThemeOf(themes[i], k) =>
                    \A picked \in {Slice(TestFilter(long, 0, topicPatterns[k].pattern), 0, 3)} :
                        \A j \in 1..Len(picked) :
                            \A whole \in {TextLength(Trim(picked[j]))},
                               kept \in {TextLength(themes[i].keyPoints[j].text)} :
                                /\ kept = Min(100, whole)
                                /\ whole <= 100 => themes[i].keyPoints[j].text = Trim(picked[j])
                                /\ themes[i].keyPoints[j].ellipsis <=> kept < whole

\* the pairs of ranks connected when there are 5 or more themes
FirstSixPairs == << <<0, 1>>, <<0, 2>>, <<1, 2>>, <<1, 3>>, <<2, 3>>, <<2, 4>> >>

\* C28: with 5 or more themes the connections are those of the pairs (0,1),
\* (0,2), (1,2), (1,3), (2,3), (2,4) of ranks, and no theme of rank 5 or more
\* is the from or the to of a connection
C28_LowRanksUnconnected ==
    (pstep = "done" /\ Len(themes) >= 5) =>
        /\ Len(connections) = Len(FirstSixPairs)
        /\ \A k \in 1..Len(FirstSixPairs) :
              /\ connections[k].from = themes[FirstSixPairs[k][1] + 1].name
              /\ connections[k].to = themes[FirstSixPairs[k][2] + 1].name
        /\ \A r \in 6..Len(themes) :
              \A k \in 1..Len(connections) :
                  /\ connections[k].from # themes[r].name
                  /\ connections[k].to # themes[r].name

\* the number of subtopics the claim gives a theme of this relevance
ExpectedSubCount(relevance) ==
    IF relevance >= 9 THEN 3 ELSE IF relevance >= 6 THEN 2 ELSE 1

RECURSIVE SubtopicsBefore(_, _)
\* the number of subtopics of the themes of rank 1 .. i - 1
SubtopicsBefore(ths, i) ==
    IF i <= 1 THEN 0
    ELSE SubtopicsBefore(ths, i - 1) + ExpectedSubCount(ths[i - 1].relevance)

----------------------------------------------------------------------------
(* Specification SpecTopic: the resolution of mainTopic on one input       *)

MaxTopicWords == 5   \* words of a corpus

TopicWords ==
    << <<"d","a","t","a">>,
       <<"S","A","L","E","S">>,
       <<"r","e","p","o","r","t">>,
       <<"m","a","r","k","e","t">>,
       <<"t","r","e","n","d">> >>

\* the corpora of up to MaxTopicWords words; no word at all is ''
TopicTexts ==
    {EmptyText} \cup
    UNION {{[k \in 1..n |-> Run(TopicWords[f[k]], 1)] : f \in [1..n -> 1..Len(TopicWords)]}
           : n \in 1..MaxTopicWords}

TopicTitles == {Undefined, Str(EmptyText), Word(<<"R","e","p","o","r","t","s">>)}

TopicFields == {Undefined, Word(<<"P","l","a","n","s">>)}

\* summaryData with a content, and a title and a field mainTopic or not; the
\* summaries with one of the two come with the corpora of up to two words
TopicInputs ==
    {[data |-> NullData,
      summaryData |-> [EmptySummary EXCEPT !.content = Str(c[1]), !.title = c[2],
                                           !.mainTopic = c[3]]] :
        c \in (TopicTexts \X {Undefined} \X {Undefined})
               \cup ({t \in TopicTexts : Len(t) <= 2} \X TopicTitles \X TopicFields)}

InitTopic ==
    /\ PipeIdle
    /\ OrchIdle
    /\ AnalysisIdle
    /\ QuizIdle
    /\ WizardIdle
    /\ topicInput \in TopicInputs
    /\ mainTopic = <<>>
    /\ tstep = "input"

\* lines 201-224 of generateTopicMapping
ResolveMainTopic ==
    /\ tstep = "input"
    /\ ~Throws(topicInput)
    /\ mainTopic' = MainTopic(topicInput.summaryData,
                              analyzeDocumentTopics(topicInput.data,
                                                    topicInput.summaryData).textContent)
    /\ tstep' = "done"
    /\ UNCHANGED <<topicInput, pipeVars, orchVars, analysisVars, quizVars, wizardVars>>

NextTopic == ResolveMainTopic

SpecTopic == InitTopic /\ [][NextTopic]_vars

\* the corpus of the drawn input
Corpus == analyzeDocumentTopics(topicInput.data, topicInput.summaryData).textContent

\* the lower-cased words of more than 4 characters of a text
LongWordSet(lw) ==
    {w \in UNION {{lw[r].ws[x] : x \in 1..Len(lw[r].ws)} : r \in 1..Len(lw)} : Len(w) > 4}

RECURSIVE Occurrences(_, _)
\* how often the word occurs in the text
Occurrences(lw, w) ==
    IF lw = <<>> THEN 0
    ELSE Head(lw).n * Cardinality({x \in 1..Len(Head(lw).ws) : Head(lw).ws[x] = w})
         + Occurrences(Tail(lw), w)

\* the first token the word occurs in
FirstSeen(lw, w) ==
    CHOOSE r \in 1..Len(lw) :
        /\ \E x \in 1..Len(lw[r].ws) : lw[r].ws[x] = w
        /\ \A q \in 1..(r - 1) : \A x \in 1..Len(lw[q].ws) : lw[q].ws[x] # w

\* the words that come before w: the more frequent ones, and of the equally
\* frequent ones those seen first
Ahead(lw, w) ==
    {v \in LongWordSet(lw) :
        \/ Occurrences(lw, v) > Occurrences(lw, w)
        \/ Occurrences(lw, v) = Occurrences(lw, w) /\ FirstSeen(lw, v) < FirstSeen(lw, w)}

RECURSIVE JoinedFrom(_, _)
\* the words of rank k, k + 1, ... up to rank 2, joined with " & "
JoinedFrom(lw, k) ==
    IF k >= Min(3, Cardinality(LongWordSet(lw))) THEN <<>>
    ELSE (IF k = 0 THEN <<>> ELSE <<" ","&"," ">>)
         \o (CHOOSE w \in LongWordSet(lw) : Cardinality(Ahead(lw, w)) = k)
         \o JoinedFrom(lw, k + 1)

\* the up to three most frequent long words, title-cased and joined
TopThree(t) == CapitalizeWords(JoinedFrom(LowerWords(t), 0))

NoTopicField(summary) ==
    summary.isNull \/ (~Truthy(summary.title) /\ ~Truthy(summary.mainTopic))

----------------------------------------------------------------------------
(* Specification SpecAnalysis: the try block of generateTopicMapping on    *)
(* one input                                                               *)

\* corpora of up to three keywords, among them corpora of more than 1000
\* characters, one of 1000 and one of 1001 characters
AnalysisTexts ==
    {TextOf(S, emph, extra, blocks) :
        S \in SUBSET (1..3), emph \in {0, 1}, extra \in 1..MaxRep,
        blocks \in 0..MaxFillerBlocks}
    \cup {<<Run(Filler, 166), Run(Vocabulary[1], 1)>>,
          <<Run(Filler, 166), Run(Vocabulary[8], 1)>>}

\* the column lists of the rows; '' is the header of an unnamed column
AnalysisColumns ==
    { <<ColumnUniverse[2]>>,
      <<ColumnUniverse[5], ColumnUniverse[2]>>,
      <<ColumnUniverse[1], ColumnUniverse[5]>>,
      << <<>>, ColumnUniverse[2] >>,
      <<ColumnUniverse[5], <<>> >> }

AnalysisInputs ==
    {[data |-> NullData, summaryData |-> [EmptySummary EXCEPT !.content = Str(t)]] :
        t \in AnalysisTexts}
    \cup {[data |-> Rows(<<Row(cols, [k \in 1..Len(cols) |-> Word(<<"1">>)])>>),
           summaryData |-> NullSummary] : cols \in AnalysisColumns}
    \cup {[data |-> Rows(<<>>), summaryData |-> EmptySummary],
          [data |-> Rows(<<>>),
           summaryData |-> [EmptySummary EXCEPT !.content = Num(<<Run(<<"5">>, 1)>>)]]}

InitAnalysis ==
    /\ PipeIdle
    /\ OrchIdle
    /\ TopicIdle
    /\ QuizIdle
    /\ WizardIdle
    /\ analysisInput \in AnalysisInputs
    /\ generated = <<>>
    /\ astep = "input"

\* the try block up to setMapping(generatedMapping), or to the catch block
RunTryBlock ==
    /\ astep = "input"
    /\ IF Throws(analysisInput)
       THEN astep' = "failed" /\ UNCHANGED generated
       ELSE /\ \E rnd \in RandomStreams :
                  generated' = <<generatedMapping(analysisInput, rnd)>>
            /\ astep' = "done"
    /\ UNCHANGED <<analysisInput, pipeVars, orchVars, topicVars, quizVars, wizardVars>>

NextAnalysis == RunTryBlock

SpecAnalysis == InitAnalysis /\ [][NextAnalysis]_vars

\* the corpus of the drawn input
AnalysedText ==
    analyzeDocumentTopics(analysisInput.data, analysisInput.summaryData).textContent

\* C25: a generated mapping has 5 insights; the first three state the numbers
\* of its themes, subtopics and connections, the fourth names its first theme
\* (the generic phrase when it has no theme), and the fifth is the 'rich
\* content' message exactly when the corpus has more than 1000 characters
C25_InsightsMatchResult ==
    astep = "done" =>
        \A m \in {generated[1]} :
            /\ Len(m.documentInsights) = 5
            /\ m.documentInsights[1] =
                   [tpl |-> "Document contains ${n} major thematic areas",
                    n |-> Len(m.keyThemes), arg |-> <<>>]
            /\ m.documentInsights[2] =
                   [tpl |-> "${n} specific subtopics identified for detailed analysis",
                    n |-> Len(m.subtopics), arg |-> <<>>]
            /\ m.documentInsights[3] =
                   [tpl |-> "Cross-topic relationships suggest ${n} conceptual connections",
                    n |-> Len(m.connections), arg |-> <<>>]
            /\ m.documentInsights[4].tpl = "Primary focus appears to be on ${name}"
            /\ m.documentInsights[4].arg =
                   (IF m.keyThemes = <<>> THEN GenericFocus ELSE m.keyThemes[1].name)
            /\ m.documentInsights[5].tpl =
                   (IF TextLength(AnalysedText) > 1000
                    THEN "Rich content suitable for in-depth topic modeling"
                    ELSE "Concise content with focused thematic structure")

----------------------------------------------------------------------------
(* Specification SpecQuiz: the component QuizSection, rendered with data   *)
(* and summaryData                                                         *)

\* the field correct of the five questions of mockQuiz
mockQuiz == <<1, 2, 1, 2, 1>>

\* the options the user picks among: the second and the third of the four
Answers == {1, 2}

MaxPresses == 6   \* activations of Next in one behaviour

notQuiz == <<pipeVars, orchVars, topicVars, analysisVars, wizardVars>>

InitQuiz ==
    /\ PipeIdle
    /\ OrchIdle
    /\ TopicIdle
    /\ AnalysisIdle
    /\ WizardIdle
    /\ QuizIdle

\* currentQuestion >= quiz.length - 1 && showResult
isQuizCompleted == currentQuestion >= Len(quiz) - 1 /\ showResult

\* the question card is rendered, with the buttons of its options and Next
QuestionShown == quiz # <<>> /\ ~isQuizCompleted

\* the button "Generate Quiz", rendered while quiz is empty and disabled while
\* isGenerating: generateQuiz up to its await
GenerateClick ==
    /\ quiz = <<>>
    /\ ~isGenerating
    /\ isGenerating' = TRUE
    /\ generating' = TRUE
    /\ UNCHANGED <<quiz, currentQuestion, selectedAnswer, showResult, score,
                   answeredQuestions, advances, presses, notQuiz>>

\* generateQuiz after its await
QuizGenerated ==
    /\ generating
    /\ generating' = FALSE
    /\ quiz' = mockQuiz
    /\ currentQuestion' = 0
    /\ selectedAnswer' = <<>>
    /\ showResult' = FALSE
    /\ score' = 0
    /\ answeredQuestions' = <<>>
    /\ isGenerating' = FALSE
    /\ UNCHANGED <<advances, presses, notQuiz>>

\* handleAnswerSelect(answerIndex), from the button of an option of the
\* current question; the buttons are disabled while showResult
AnswerSelect ==
    /\ QuestionShown
    /\ currentQuestion < Len(quiz)
    /\ ~showResult
    /\ \E answerIndex \in Answers : selectedAnswer' = <<answerIndex>>
    /\ UNCHANGED <<quiz, isGenerating, currentQuestion, showResult, score,
                   answeredQuestions, generating, advances, presses, notQuiz>>

\* handleNextQuestion, from the button Next, which is disabled only while
\* selectedAnswer is null
NextQuestionClick ==
    /\ QuestionShown
    /\ selectedAnswer # <<>>
    /\ currentQuestion < Len(quiz)
    /\ presses < MaxPresses
    /\ presses' = presses + 1
    /\ score' = IF selectedAnswer[1] = quiz[currentQuestion + 1] THEN score + 1 ELSE score
    /\ answeredQuestions' = Append(answeredQuestions, selectedAnswer[1])
    /\ showResult' = TRUE
    /\ advances' = Append(advances, currentQuestion)
    /\ UNCHANGED <<quiz, isGenerating, currentQuestion, selectedAnswer, generating,
                   notQuiz>>

\* the oldest callback of setTimeout(..., 2500) runs, with the currentQuestion
\* and the quiz of the render that scheduled it
AdvanceTimer ==
    /\ advances # <<>>
    /\ advances' = Tail(advances)
    /\ IF Head(advances) < Len(quiz) - 1
       THEN /\ currentQuestion' = currentQuestion + 1
            /\ selectedAnswer' = <<>>
            /\ showResult' = FALSE
       ELSE UNCHANGED <<currentQuestion, selectedAnswer, showResult>>
    /\ UNCHANGED <<quiz, isGenerating, score, answeredQuestions, generating, presses,
                   notQuiz>>

\* resetQuiz, from the button "Retake Quiz" of the completed view
ResetClick ==
    /\ quiz # <<>>
    /\ isQuizCompleted
    /\ currentQuestion' = 0
    /\ selectedAnswer' = <<>>
    /\ showResult' = FALSE
    /\ score' = 0
    /\ answeredQuestions' = <<>>
    /\ UNCHANGED <<quiz, isGenerating, generating, advances, presses, notQuiz>>

NextQuiz ==
    \/ GenerateClick
    \/ QuizGenerated
    \/ AnswerSelect
    \/ NextQuestionClick
    \/ AdvanceTimer
    \/ ResetClick

SpecQuiz == InitQuiz /\ [][NextQuiz]_vars

\* C26: each question contributes at most one point and one entry to
\* answeredQuestions: score <= answeredQuestions.length <= quiz.length
C26_OneEntryPerQuestion ==
    /\ score <= Len(answeredQuestions)
    /\ Len(answeredQuestions) <= Len(quiz)

\* C27: whenever a quiz is loaded, 0 <= currentQuestion <= quiz.length - 1
C27_CurrentQuestionValid ==
    quiz # <<>> => (0 <= currentQuestion /\ currentQuestion <= Len(quiz) - 1)

----------------------------------------------------------------------------
(* Specification SpecWizard: the page Index with its step FileUpload       *)

\* the components registered for the steps 1 to 4
steps ==
    << [id |-> 1, component |-> "FileUpload"],
       [id |-> 2, component |-> "DataSummary"],
       [id |-> 3, component |-> "DataMapping"],
       [id |-> 4, component |-> "QuizSection"] >>

\* renderCurrentStep: steps[currentStep - 1].component; outside the list the
\* access of .component raises
StepComponent(step) ==
    IF step \in 1..Len(steps) THEN steps[step].component ELSE "TypeError"

\* String.prototype.endsWith
EndsWith(s, suffix) ==
    /\ Len(s) >= Len(suffix)
    /\ SubSeq(s, Len(s) - Len(suffix) + 1, Len(s)) = suffix

RECURSIVE SplitOn(_, _, _)
\* s.split(sep) for a separator of one character, cur being the piece read so far
SplitOn(s, sep, cur) ==
    IF s = <<>> THEN <<cur>>
    ELSE IF Head(s) = sep THEN <<cur>> \o SplitOn(Tail(s), sep, <<>>)
    ELSE SplitOn(Tail(s), sep, Append(cur, Head(s)))

RECURSIVE TrimLeft(_)
TrimLeft(s) == IF s # <<>> /\ Head(s) = " " THEN TrimLeft(Tail(s)) ELSE s

RECURSIVE TrimRight(_)
TrimRight(s) ==
    IF s # <<>> /\ s[Len(s)] = " " THEN TrimRight(SubSeq(s, 1, Len(s) - 1)) ELSE s

\* String.prototype.trim on a string of characters
TrimChars(s) == TrimRight(TrimLeft(s))

\* s.replace(/"/g, '')
Unquote(s) == SelectSeq(s, LAMBDA c : c # "\"")

\* line.split(',').map(v => v.trim().replace(/"/g, ''))
CellsOf(line) ==
    LET pieces == SplitOn(line, ",", <<>>)
    IN  [k \in 1..Len(pieces) |-> Unquote(TrimChars(pieces[k]))]

\* the object built by headers.forEach((header, index) => obj[header] =
\* values[index] || ''): one property per header, a repeated header keeps the
\* value of its last position
RowObject(headers, values) ==
    [h \in {headers[k] : k \in 1..Len(headers)} |->
        LET last == CHOOSE k \in 1..Len(headers) :
                        /\ headers[k] = h
                        /\ \A q \in (k + 1)..Len(headers) : headers[q] # h
        IN  IF last <= Len(values) THEN values[last] ELSE <<>>]

\* parseCSV(text), lines being text.split('\n')
parseCSV(lines) ==
    LET kept == SelectSeq(lines, LAMBDA line : TrimChars(line) # <<>>)
    IN  IF kept = <<>> THEN <<>>
        ELSE [k \in 1..(Len(kept) - 1) |->
                  RowObject(CellsOf(kept[1]), CellsOf(kept[k + 1]))]

\* parsePDF(file): one mock row
parsePDF(file) ==
    << [p \in {"fileName"} |-> file.name] >>

MaxUploads == 2   \* calls of handleFile in one behaviour

BlankLine == <<" ">>
HeaderLine == <<"a",","," ","\"","b","\""," ",",","a">>
ShortLine == <<"1">>
QuotedLine == <<" ","\"","x"," ","y","\"",",","2",",","3">>

\* the files offered: a name and the lines of the content
FilePool ==
    << [name |-> <<"d","a","t","a",".","c","s","v">>, lines |-> << <<>> >>],
       [name |-> <<"d","a","t","a",".","c","s","v">>, lines |-> <<BlankLine, <<>> >>],
       [name |-> <<"d","a","t","a",".","c","s","v">>, lines |-> <<HeaderLine>>],
       [name |-> <<"d","a","t","a",".","c","s","v">>, lines |-> <<HeaderLine, BlankLine, <<>> >>],
       [name |-> <<"d","a","t","a",".","c","s","v">>, lines |-> <<HeaderLine, QuotedLine>>],
       [name |-> <<"d","a","t","a",".","c","s","v">>, lines |-> <<BlankLine, HeaderLine, <<>>, ShortLine, <<>> >>],
       [name |-> <<"d","a","t","a",".","c","s","v">>, lines |-> <<QuotedLine, HeaderLine, ShortLine>>],
       [name |-> <<"d","o","c",".","p","d","f">>, lines |-> << <<>> >>],
       [name |-> <<"c","s","v",".","t","x","t">>, lines |-> <<HeaderLine, ShortLine>>],
       [name |-> <<"D","A","T","A",".","C","S","V">>, lines |-> <<HeaderLine, ShortLine>>] >>

isCSV(file) == EndsWith(file.name, <<".","c","s","v">>)
isPDF(file) == EndsWith(file.name, <<".","p","d","f">>)

notWizard == <<pipeVars, orchVars, topicVars, analysisVars, quizVars>>

InitWizard ==
    /\ PipeIdle
    /\ OrchIdle
    /\ TopicIdle
    /\ AnalysisIdle
    /\ QuizIdle
    /\ WizardIdle

\* Index renders the step given: a FileUpload that is no longer rendered loses
\* its state, and the loads it started go on without it
RenderStep(step) ==
    /\ currentStep' = step
    /\ rendered' = StepComponent(step)
    /\ IF currentStep = 1 /\ step # 1
       THEN /\ uploadedFile' = <<>>
            /\ parsedData' = <<>>
            /\ fileType' = "null"
            /\ reads' = [k \in 1..Len(reads) |-> [reads[k] EXCEPT !.orphan = TRUE]]
       ELSE UNCHANGED <<uploadedFile, parsedData, fileType, reads>>

\* a callback onNext that does not stop at the last step
OnNextUnbounded ==
    /\ currentStep <= Len(steps)
    /\ RenderStep(currentStep + 1)
    /\ lastCall' = [name |-> "onNext", at |-> currentStep, file |-> <<>>]
    /\ UNCHANGED <<uploadedData, toast, uploads, dataUploads, notWizard>>

\* onNext: setCurrentStep(prev => Math.min(prev + 1, 4)), by whoever holds the
\* callback
OnNext ==
    /\ RenderStep(Min(currentStep + 1, 4))
    /\ lastCall' = [name |-> "onNext", at |-> currentStep, file |-> <<>>]
    /\ UNCHANGED <<uploadedData, toast, uploads, dataUploads, notWizard>>

\* onBack: setCurrentStep(prev => Math.max(prev - 1, 1))
OnBack ==
    /\ RenderStep(Max(currentStep - 1, 1))
    /\ lastCall' = [name |-> "onBack", at |-> currentStep, file |-> <<>>]
    /\ UNCHANGED <<uploadedData, toast, uploads, dataUploads, notWizard>>

\* handleFile(file) of the FileUpload rendered at step 1, up to
\* reader.readAsText(file) for a CSV and to its end otherwise
HandleFile ==
    /\ currentStep = 1
    /\ uploads < MaxUploads
    /\ uploads' = uploads + 1
    /\ \E f \in 1..Len(FilePool) :
          LET file == FilePool[f]
          IN  /\ lastCall' = [name |-> "handleFile", at |-> currentStep, file |-> <<file>>]
              /\ IF ~isCSV(file) /\ ~isPDF(file)
                 THEN /\ toast' = "Invalid file type"
                      /\ UNCHANGED <<uploadedFile, parsedData, fileType, reads,
                                     uploadedData, dataUploads>>
                 ELSE IF isCSV(file)
                 THEN /\ reads' = Append(reads, [file |-> file, orphan |-> FALSE])
                      /\ UNCHANGED <<uploadedFile, parsedData, fileType, toast,
                                     uploadedData, dataUploads>>
                 ELSE /\ uploadedFile' = <<file>>
                      /\ parsedData' = parsePDF(file)
                      /\ fileType' = "pdf"
                      /\ uploadedData' = Rows(parsePDF(file))
                      /\ dataUploads' = dataUploads + 1
                      /\ toast' = "PDF file uploaded successfully!"
                      /\ UNCHANGED reads
    /\ UNCHANGED <<currentStep, rendered, notWizard>>

\* an onload that hands on whatever parseCSV returns
ReaderLoadedUnchecked(r) ==
    /\ reads' = SubSeq(reads, 1, r - 1) \o SubSeq(reads, r + 1, Len(reads))
    /\ lastCall' = [name |-> "onload", at |-> currentStep, file |-> <<reads[r].file>>]
    /\ LET data == parseCSV(reads[r].file.lines)
       IN  /\ IF reads[r].orphan
              THEN UNCHANGED <<uploadedFile, parsedData, fileType>>
              ELSE /\ uploadedFile' = <<reads[r].file>>
                   /\ parsedData' = data
                   /\ fileType' = "csv"
           /\ uploadedData' = Rows(data)
           /\ dataUploads' = dataUploads + 1
           /\ toast' = "CSV file uploaded successfully!"
    /\ UNCHANGED <<currentStep, rendered, uploads, notWizard>>

\* reader.onload of the r-th load under way; the setters of an unmounted
\* FileUpload do nothing, onDataUpload is the setter of Index
ReaderLoaded(r) ==
    /\ reads' = SubSeq(reads, 1, r - 1) \o SubSeq(reads, r + 1, Len(reads))
    /\ lastCall' = [name |-> "onload", at |-> currentStep, file |-> <<reads[r].file>>]
    /\ LET data == parseCSV(reads[r].file.lines)
       IN  IF Len(data) = 0
           THEN /\ toast' = "Empty file"
                /\ UNCHANGED <<uploadedFile, parsedData, fileType, uploadedData,
                               dataUploads>>
           ELSE /\ IF reads[r].orphan
                   THEN UNCHANGED <<uploadedFile, parsedData, fileType>>
                   ELSE /\ uploadedFile' = <<reads[r].file>>
                        /\ parsedData' = data
                        /\ fileType' = "csv"
                /\ uploadedData' = Rows(data)
                /\ dataUploads' = dataUploads + 1
                /\ toast' = "CSV file uploaded successfully!"
    /\ UNCHANGED <<currentStep, rendered, uploads, notWizard>>

ReaderFires == \E r \in 1..Len(reads) : ReaderLoaded(r)

NextWizard == OnNext \/ OnBack \/ HandleFile \/ ReaderFires

SpecWizard == InitWizard /\ [][NextWizard]_vars

\* the step is a call of the callback named, made at step at
CallOf(name) == lastCall'.name = name /\ lastCall'.at = currentStep

\* C29: currentStep is in 1..4 and the component rendered is the one
\* registered for it; every call changes currentStep by at most 1, onNext
\* raises it except at step 4, onBack lowers it except at step 1, and these two
\* leave it as it is
C29_StepInRange ==
    /\ [](/\ currentStep \in 1..4
          /\ \E k \in 1..Len(steps) :
                steps[k].id = currentStep /\ steps[k].component = rendered)
    /\ [][/\ currentStep' - currentStep \in {-1, 0, 1}
          /\ CallOf("onNext") =>
                currentStep' = (IF currentStep = 4 THEN 4 ELSE currentStep + 1)
          /\ CallOf("onBack") =>
                currentStep' = (IF currentStep = 1 THEN 1 ELSE currentStep - 1)
         ]_vars

\* onNext was called at step 4, after an onBack at step 1 or not
C29_Witness ==
    /\ currentStep = 4
    /\ rendered = "QuizSection"
    /\ lastCall.name = "onNext"
    /\ lastCall.at = 4

\* the lines of the content that are not white space only
ContentLines(file) ==
    {k \in 1..Len(file.lines) : \E x \in 1..Len(file.lines[k]) : file.lines[k][x] # " "}

\* the upload of the call is rejected: handleFile on a name that ends neither
\* in .csv nor in .pdf, or the load of a CSV without a line after its header
Rejected(call) ==
    \/ /\ call.name = "handleFile"
       /\ ~EndsWith(call.file[1].name, <<".","c","s","v">>)
       /\ ~EndsWith(call.file[1].name, <<".","p","d","f">>)
    \/ /\ call.name = "onload"
       /\ Cardinality(ContentLines(call.file[1])) <= 1

\* C30: a rejected upload leaves uploadedFile, parsedData and fileType as they
\* are and does not call onDataUpload; the data handed to Index is never an
\* empty array
C30_RejectedUploadChangesNothing ==
    /\ [](~uploadedData.isNull => Len(uploadedData.rows) > 0)
    /\ [][(lastCall' # lastCall /\ Rejected(lastCall')) =>
              UNCHANGED <<uploadedFile, parsedData, fileType, uploadedData, dataUploads>>
         ]_vars

\* a CSV of a header and blank lines was rejected while the file of an
\* earlier upload is shown
C30_Witness ==
    /\ lastCall.name = "onload"
    /\ Rejected(lastCall)
    /\ Len(lastCall.file[1].lines) > 1
    /\ toast = "Empty file"
    /\ uploadedFile # <<>>
    /\ dataUploads = 1
    /\ ~uploadedData.isNull

----------------------------------------------------------------------------
(* Properties of the orchestrator (checked under Spec and FairSpec)        *)

\* the mapping block is rendered: {mapping && !loading && (...)}
Exposed == mapping # <<>> /\ ~loading /\ ~NoDocument(InputPool[input])

\* the call whose timer fires in this step
FinishStep == runs # <<>> /\ runs' = Tail(runs)

FinishingInput == Head(runs).input

\* C4: a call that publishes its result is the latest call made: the result of
\* a superseded call is never stored as the mapping
C4_OnlyLatestPublished ==
    [][mappingRun' # mappingRun => mappingRun' = nextRun']_vars

\* C5: once a later call of generateTopicMapping has started, the mapping
\* stored by an earlier call is not exposed any more
C5_PreviousResultDiscarded ==
    Exposed => mappingRun = nextRun

\* C6: an error message and a mapping are never shown together
C6_ReadyXorFailed ==
    ~(error # <<>> /\ Exposed)

\* C7: while a call is in flight, loading is true and no mapping is exposed
C7_AnalyzingWhileInFlight ==
    runs # <<>> => loading /\ ~Exposed

\* C8: the step in which a call fails sets the generic error message, resets
\* loading and leaves the stored mapping as it is; and the mapping only ever
\* changes to the complete result of a call that did not fail
C8_FailedRunPublishesNothing ==
    [][/\ (FinishStep /\ TryBlock[FinishingInput].threw) =>
              /\ mapping' = mapping
              /\ mappingRun' = mappingRun
              /\ error' = <<ErrorMessage>>
              /\ ~loading'
       /\ mapping' # mapping =>
              /\ FinishStep
              /\ ~TryBlock[FinishingInput].threw
              /\ \E rnd \in RandomStreams :
                    mapping' = TryBlock[FinishingInput].result[StreamIndex(rnd)]
      ]_vars

\* a call failed while a mapping stored earlier is still there
C8_Witness ==
    /\ \E id \in 1..Len(outcome) : outcome[id] = "failed"
    /\ error = <<ErrorMessage>>
    /\ mapping # <<>>
    /\ runs = <<>>

InFlight == {runs[k].id : k \in 1..Len(runs)}

\* C9: every call of generateTopicMapping ends (the calls in flight are
\* exactly those without an outcome, and again and again none is in flight),
\* as ready with its mapping stored or as failed with the error set, with
\* loading reset in both cases, and never by an exception leaving the function
C9_EveryRunTerminates ==
    /\ []<>(runs = <<>>)
    /\ [](\A id \in 1..Len(outcome) :
              /\ outcome[id] = "pending" <=> id \in InFlight
              /\ outcome[id] \in {"pending", "ready", "failed"})
    /\ [][FinishStep =>
            LET id == Head(runs).id
            IN  /\ ~loading'
                /\ outcome'[id] \in {"ready", "failed"}
                /\ outcome'[id] = "ready" => mapping' # <<>> /\ mappingRun' = id
                /\ outcome'[id] = "failed" => error' # <<>>
         ]_vars

\* all calls have ended, one as ready and one as failed
C9_Witness ==
    /\ runs = <<>>
    /\ ~loading
    /\ \E id \in 1..Len(outcome) : outcome[id] = "ready"
    /\ \E id \in 1..Len(outcome) : outcome[id] = "failed"

\* C10: a change of the props starts a call, and when no call is in flight
\* what is shown is the outcome of the latest call, the one on the current
\* props: its mapping and no error, or its error and no mapping
C10_LatestInputWins ==
    (mounted /\ runs = <<>> /\ ~NoDocument(InputPool[input])) =>
        /\ outcome[nextRun] = "ready" => Exposed /\ mappingRun = nextRun /\ error = <<>>
        /\ outcome[nextRun] = "failed" => error # <<>> /\ ~Exposed

\* a click on "Retry Analysis" or "Re-analyze Topics": a call starts without the
\* component being mounted or its props changing
ClickStep == mounted /\ nextRun' = nextRun + 1 /\ input' = input

\* C11: a retry or re-analyze click happens only while loading is false and an
\* error or a mapping is shown; it clears the error, sets loading, keeps the
\* mapping and starts a call on the current data and summaryData, and that
\* call, if it does not throw, stores the mapping computed from them
C11_RetryRunsCurrentInputs ==
    /\ [][ClickStep =>
            /\ ~loading
            /\ error # <<>> \/ mapping # <<>>
            /\ error' = <<>>
            /\ loading'
            /\ mapping' = mapping
            /\ runs' = Append(runs, [id |-> nextRun', input |-> input])
         ]_vars
    /\ [][(FinishStep /\ ~TryBlock[FinishingInput].threw) =>
            \E rnd \in RandomStreams :
                mapping' = TryBlock[FinishingInput].result[StreamIndex(rnd)]
         ]_vars
    /\ [](error # <<>> => ~loading)

\* the first call failed and "Retry Analysis" started the second one
C11_Witness ==
    /\ changes = 0
    /\ outcome = <<"failed", "pending">>
    /\ loading
    /\ error = <<>>
    /\ runs = <<[id |-> 2, input |-> input]>>

\* no rows: data is absent or an empty array
NoRows(d) == d.isNull \/ d.rows = <<>>

\* no text: summaryData is absent or has no content, text or description
NoText(summary) ==
    \/ summary.isNull
    \/ ~Truthy(summary.content) /\ ~Truthy(summary.text) /\ ~Truthy(summary.description)

EmptyInput(in) == NoRows(in.data) /\ NoText(in.summaryData)

\* C12: while the props hold no text and no rows, the component shows "No
\* Document to Analyze", the analysis of these props raises no exception, and
\* when it was the only analysis no error is set
C12_EmptyInputReported ==
    (mounted /\ EmptyInput(InputPool[input])) =>
        /\ NoDocument(InputPool[input])
        /\ ~TryBlock[input].threw
        /\ changes = 0 => error = <<>>

Range(s) == {s[i] : i \in 1..Len(s)}

\* C16: in a mapping, primary is the names of themes[0:3], secondary the
\* names of themes[3:6] and supporting the names of subtopics[0:4], and no
\* name is in both primary and secondary
C16_HierarchySlices ==
    mapping # <<>> =>
        \A m \in {mapping[1]} :
            /\ Len(m.topicHierarchy.primary) = Min(3, Len(m.keyThemes))
            /\ \A i \in 1..Len(m.topicHierarchy.primary) :
                  m.topicHierarchy.primary[i] = m.keyThemes[i].name
            /\ Len(m.topicHierarchy.secondary) = Max(0, Min(6, Len(m.keyThemes)) - 3)
            /\ \A i \in 1..Len(m.topicHierarchy.secondary) :
                  m.topicHierarchy.secondary[i] = m.keyThemes[3 + i].name
            /\ Len(m.topicHierarchy.supporting) = Min(4, Len(m.subtopics))
            /\ \A i \in 1..Len(m.topicHierarchy.supporting) :
                  m.topicHierarchy.supporting[i] = m.subtopics[i].name
            /\ Range(m.topicHierarchy.primary) \cap Range(m.topicHierarchy.secondary) = {}

\* two mappings that differ at most in the relationshipType of connections
SameButLabels(a, b) ==
    /\ a.mainTopic = b.mainTopic
    /\ a.keyThemes = b.keyThemes
    /\ a.subtopics = b.subtopics
    /\ a.documentInsights = b.documentInsights
    /\ a.topicHierarchy = b.topicHierarchy
    /\ Len(a.connections) = Len(b.connections)
    /\ \A k \in 1..Len(a.connections) :
          /\ a.connections[k].from = b.connections[k].from
          /\ a.connections[k].to = b.connections[k].to
          /\ a.connections[k].strength = b.connections[k].strength

ScenarioA(in) ==
    /\ EmptyInput(in)
    /\ \/ in.summaryData.isNull
       \/ ~Truthy(in.summaryData.title) /\ ~Truthy(in.summaryData.mainTopic)

\* C20: a call on props without text, rows, title and mainTopic stores a
\* mapping with no themes, no subtopics and no connections, the mainTopic
\* "Document Analysis" and the first insight "Document contains 0 major
\* thematic areas"
C20_ScenarioA ==
    [][(FinishStep /\ ScenarioA(InputPool[FinishingInput])) =>
            /\ mapping' # <<>>
            /\ mappingRun' = Head(runs).id
            /\ mapping'[1].keyThemes = <<>>
            /\ mapping'[1].subtopics = <<>>
            /\ mapping'[1].connections = <<>>
            /\ mapping'[1].mainTopic =
                   <<"D","o","c","u","m","e","n","t"," ","A","n","a","l","y","s","i","s">>
            /\ mapping'[1].documentInsights[1] =
                   [tpl |-> "Document contains ${n} major thematic areas",
                    n |-> 0, arg |-> <<>>]
      ]_vars

\* the call on data = [] and an empty summaryData has stored its mapping
C20_Witness ==
    /\ ScenarioA(InputPool[input])
    /\ ~InputPool[input].data.isNull
    /\ changes = 0
    /\ mappingRun = 1
    /\ mapping # <<>>
    /\ mapping[1].keyThemes = <<>>

====
